---- MODULE Spec2Model ----
(***************************************************************************)
(* Fluxwave audio player: the HowlerPlayer wrapper (audio/HowlerPlayer.js, *)
(* second revision, lines 276-606), the zustand player store               *)
(* (store/playerStore.js) and the AudioPlayer component that drives them   *)
(* (components/AudioPlayer.js).                                            *)
(*                                                                         *)
(* The program is sequential JavaScript on one event loop.  An operation   *)
(* is modelled as a function from a "world" record (all the program state) *)
(* to the world after it, so that a handler is the composition of the      *)
(* calls it makes, in the order of the code.  An action of the state       *)
(* machine is one task of the event loop: a UI command, a timer, or the    *)
(* delivery of one engine event.                                           *)
(*                                                                         *)
(* The audio engine (howler) is outside the repository.  It is modelled by *)
(* its interface: a Howl is created loading, later emits load or           *)
(* loaderror, plays, ends.  The engine hands every event to its listener   *)
(* through a zero-delay timer, so a listener may run after the Howl was    *)
(* stopped and unloaded; the model keeps an emitted event queued on the    *)
(* Howl until it is delivered.                                             *)
(***************************************************************************)
EXTENDS Integers, Sequences, FiniteSets, TLC

VARIABLES
    store,      \* the zustand store (playerStore.js)
    hp,         \* the HowlerPlayer object: sound, isDestroyed, loadPromise
    howls,      \* the engine's Howl objects, in creation order
    ui,         \* AudioPlayer component state: props, playerRef, error
    calls,      \* history: the engine calls, promise settlements and caller
                \* callbacks made by the last action, in order
    urlIn,      \* input of the URL validator run (SpecUrl)
    urlOut,     \* its result
    statics,    \* the static side of the HowlerPlayer class: _initialized and
                \* the interval timers started, with the number of instances
                \* constructed (history)
    wp,         \* the server side (rest-api.php): the rate limiter's transients,
                \* the requests being handled and the last decision (history)
    page        \* view.js: the rootInstances map and the React roots created

vars == <<store, hp, howls, ui, calls, urlIn, urlOut, statics, wp, page>>

(***************************************************************************)
(* Bounds                                                                  *)
(***************************************************************************)
MaxHowls == 2       \* Howl objects created in one run

(***************************************************************************)
(* Program constants                                                       *)
(***************************************************************************)
Html5PoolSize == 200        \* Howler.html5PoolSize
RestartThreshold == 3       \* handlePrevious: "more than 3 seconds in"
TrackDur == 12              \* duration the engine reports for a loaded track

NoSound == 0                \* this.sound = null

RepeatModes == {"none", "all", "one"}

(***************************************************************************)
(* Characters and URLs.  A string is a sequence of one-character strings.  *)
(***************************************************************************)
LowerAlpha == {"a", "c", "e", "f", "h", "i", "j", "p", "r", "s", "t", "v"}
UpperAlpha == {"H", "T", "P", "S"}
Digits == <<"0", "1", "2", "3", "4", "5", "6", "7", "8", "9">>
DigitSet == {Digits[i] : i \in 1..10}

Lower(c) ==
    CASE c = "H" -> "h" [] c = "T" -> "t" [] c = "P" -> "p" [] c = "S" -> "s"
      [] OTHER -> c

LowerAll(s) == [i \in 1..Len(s) |-> Lower(s[i])]

DigitVal(c) == (CHOOSE i \in 1..10 : Digits[i] = c) - 1

RECURSIVE NumVal(_)
NumVal(s) == IF s = <<>> THEN 0
             ELSE 10 * NumVal(SubSeq(s, 1, Len(s) - 1)) + DigitVal(s[Len(s)])

Drop(s, n) == SubSeq(s, n + 1, Len(s))

\* The first index of s whose character satisfies the test, Len(s)+1 if none.
FirstIn(s, set) ==
    IF \E i \in 1..Len(s) : s[i] \in set
    THEN CHOOSE i \in 1..Len(s) : s[i] \in set /\ \A j \in 1..(i - 1) : s[j] \notin set
    ELSE Len(s) + 1

FirstNotIn(s, set) ==
    IF \E i \in 1..Len(s) : s[i] \notin set
    THEN CHOOSE i \in 1..Len(s) : s[i] \notin set /\ \A j \in 1..(i - 1) : s[j] \in set
    ELSE Len(s) + 1

LastNotIn(s, set) ==
    IF \E i \in 1..Len(s) : s[i] \notin set
    THEN CHOOSE i \in 1..Len(s) : s[i] \notin set /\ \A j \in (i + 1)..Len(s) : s[j] \in set
    ELSE 0

Http  == <<"h", "t", "t", "p">>
Https == <<"h", "t", "t", "p", "s">>
Ftp   == <<"f", "t", "p">>
File  == <<"f", "i", "l", "e">>
SpecialSchemes == {Http, Https, Ftp, File, <<"w", "s">>, <<"w", "s", "s">>}

ParseFailure == <<"!">>     \* new URL(...) throws TypeError

(***************************************************************************)
(* new URL(input, base), as far as it decides the protocol and the parse   *)
(* failure (the URL Standard's basic parser): strip leading and trailing   *)
(* spaces; a leading ALPHA followed by scheme characters and ":" is the    *)
(* scheme, lower-cased; without one the input is relative to the base.  A  *)
(* special scheme equal to the base's is relative unless "//" follows; a   *)
(* special scheme always ends with a host, which must be non-empty, free   *)
(* of forbidden code points, with a port of digits up to 65535.            *)
(***************************************************************************)
MaxPort == 2^16 - 1

Slashes == {"/", "\\"}
SchemeChars == LowerAlpha \cup UpperAlpha \cup DigitSet \cup {"+", "-", "."}
ForbiddenHost == {" ", "#", "/", ":", "<", ">", "?", "@", "[", "\\", "]", "^", "|", "%"}

Trim(s) ==
    LET a == FirstNotIn(s, {" "})
        b == LastNotIn(s, {" "})
    IN  IF a > b THEN <<>> ELSE SubSeq(s, a, b)

\* Index of the ":" that ends the scheme, 0 when the input has no scheme.
SchemeEnd(s) ==
    LET p == FirstNotIn(s, SchemeChars)
    IN  IF /\ s # <<>>
           /\ s[1] \in LowerAlpha \cup UpperAlpha
           /\ p <= Len(s)
           /\ s[p] = ":"
        THEN p ELSE 0

\* The authority of a special URL: host[:port], up to the path.
HostOk(rest) ==
    LET auth == SubSeq(rest, 1, FirstIn(rest, Slashes \cup {"?", "#"}) - 1)
        c    == FirstIn(auth, {":"})
        host == SubSeq(auth, 1, c - 1)
        port == Drop(auth, c)
    IN  /\ host # <<>>
        /\ \A i \in 1..Len(host) : host[i] \notin ForbiddenHost
        /\ \A i \in 1..Len(port) : port[i] \in DigitSet
        /\ NumVal(port) <= MaxPort

StartsWithTwoSlashes(s) == Len(s) >= 2 /\ s[1] \in Slashes /\ s[2] \in Slashes

\* The protocol's scheme of new URL(input, base), or ParseFailure.
URLParse(input, baseScheme) ==
    LET s == Trim(input)
        p == SchemeEnd(s)
        scheme == LowerAll(SubSeq(s, 1, p - 1))
        rest == Drop(s, p)
    IN  IF p = 0
        THEN \* no scheme: relative to the base, whose scheme it takes
             IF StartsWithTwoSlashes(s)
             THEN IF HostOk(Drop(s, FirstNotIn(s, Slashes) - 1))
                  THEN baseScheme ELSE ParseFailure
             ELSE baseScheme
        ELSE IF scheme \notin SpecialSchemes THEN scheme
        ELSE IF scheme = File THEN scheme
        ELSE IF scheme = baseScheme /\ ~StartsWithTwoSlashes(rest) THEN scheme
        ELSE IF HostOk(Drop(rest, FirstNotIn(rest, Slashes) - 1))
             THEN scheme ELSE ParseFailure

\* A JavaScript value handed to isValidUrl: its type and, for a string, its text.
JsNull == [type |-> "null", text |-> <<>>]
JsUndefined == [type |-> "undefined", text |-> <<>>]
JsNumber == [type |-> "number", text |-> <<>>]
JsObject == [type |-> "object", text |-> <<>>]
JsString(s) == [type |-> "string", text |-> s]

\* JavaScript truthiness of such a value (the number is 0, the object is {}).
Truthy(v) ==
    CASE v.type = "string" -> v.text # <<>>
      [] v.type = "object" -> TRUE
      [] OTHER -> FALSE

\* A validation that accepts every URL that parses, whatever its scheme.
isValidUrlAnyScheme(url, originScheme) ==
    IF ~Truthy(url) \/ url.type # "string" THEN FALSE
    ELSE URLParse(url.text, originScheme) # ParseFailure

\* HowlerPlayer.isValidUrl(url), with window.location.origin's scheme.
isValidUrl(url, originScheme) ==
    IF ~Truthy(url) \/ url.type # "string" THEN FALSE
    ELSE LET r == URLParse(url.text, originScheme)
         IN  IF r = ParseFailure THEN FALSE ELSE r = Http \/ r = Https

(***************************************************************************)
(* The world: all the program state as one record, so that the calls of a  *)
(* handler compose in the order of the code.                               *)
(***************************************************************************)
World ==
    [store |-> store, hp |-> hp, howls |-> howls, ui |-> ui, calls |-> <<>>,
     statics |-> statics]

\* One engine call, appended to the log of the running action.
Log(W, op, h, arg) ==
    [W EXCEPT !.calls = Append(@, [op |-> op, h |-> h, arg |-> arg])]

Min(a, b) == IF a <= b THEN a ELSE b
Max(a, b) == IF a >= b THEN a ELSE b

(***************************************************************************)
(* The engine's Howl objects (howler, outside the repository), by their    *)
(* interface.  st: loading | loaded | unloaded.  outcome: the load event   *)
(* the Howl has emitted.  q: the emitted event not yet delivered to its    *)
(* listener.  queuedPlay: a play() made before the load completes is       *)
(* queued by the engine and starts at load; pause() and stop() cancel it.  *)
(* cl: the callbacks object handed to load() (bag) and the values its       *)
(* closures captured.                                                      *)
(* Volume and rate are in hundredths.                                      *)
(***************************************************************************)
NewHowl(src, cl) ==
    [src |-> src, st |-> "loading", outcome |-> "none", q |-> "none",
     playing |-> FALSE, queuedPlay |-> FALSE, pos |-> 0,
     rate |-> 100, vol |-> 100, cl |-> cl]

\* An unloaded Howl takes part in the run only through an event it emitted
\* that is still to be delivered; what else it held is dropped.
NoClosure ==
    [bag |-> "none", isPlaying |-> FALSE, repeatMode |-> "none",
     playbackRate |-> 0, volume |-> 0, userRate |-> 0]

Spent ==
    [src |-> <<>>, st |-> "unloaded", outcome |-> "spent", q |-> "none",
     playing |-> FALSE, queuedPlay |-> FALSE, pos |-> 0,
     rate |-> 0, vol |-> 0, cl |-> NoClosure]

Settle(hs) ==
    [i \in 1..Len(hs) |->
        IF hs[i].st # "unloaded" THEN hs[i]
        ELSE IF hs[i].q = "none" THEN Spent
        ELSE [hs[i] EXCEPT !.src = <<>>, !.rate = 0, !.vol = 0]]

HowlPlay(W, h) ==
    LET L == Log(W, "play", h, 0)
    IN  IF W.howls[h].st = "loaded"
        THEN [L EXCEPT !.howls[h].playing = TRUE]
        ELSE [L EXCEPT !.howls[h].queuedPlay = TRUE]

HowlPause(W, h) ==
    LET L == Log(W, "pause", h, 0)
    IN  IF W.howls[h].st = "loaded"
        THEN [L EXCEPT !.howls[h].playing = FALSE]
        ELSE [L EXCEPT !.howls[h].queuedPlay = FALSE]

HowlStop(W, h) ==
    LET L == Log(W, "stop", h, 0)
    IN  IF W.howls[h].st = "loaded"
        THEN [L EXCEPT !.howls[h].playing = FALSE, !.howls[h].pos = 0]
        ELSE [L EXCEPT !.howls[h].queuedPlay = FALSE]

HowlUnload(W, h) ==
    [Log(W, "unload", h, 0) EXCEPT !.howls[h].st = "unloaded",
                                   !.howls[h].playing = FALSE,
                                   !.howls[h].queuedPlay = FALSE,
                                   !.howls[h].pos = 0]

\* seek(t) as a setter: the media element clamps the position to the duration.
HowlSeek(W, h, t) ==
    [Log(W, "seek", h, t) EXCEPT !.howls[h].pos = Min(t, TrackDur)]

HowlVolume(W, h, v) == [Log(W, "volume", h, v) EXCEPT !.howls[h].vol = v]

HowlRate(W, h, r) == [Log(W, "rate", h, r) EXCEPT !.howls[h].rate = r]

HowlPlaying(W, h) == W.howls[h].playing

HowlDuration(W, h) == IF W.howls[h].st = "loaded" THEN TrackDur ELSE 0

(***************************************************************************)
(* HowlerPlayer (audio/HowlerPlayer.js, lines 276-606)                     *)
(***************************************************************************)
\* A cleanup that stops the bound Howl and drops it without unload().
CleanupNoUnload(W) ==
    IF W.hp.sound # NoSound
    THEN [HowlStop(W, W.hp.sound) EXCEPT !.hp.sound = NoSound]
    ELSE W

\* _cleanupCurrentSound(): stop and unload the bound Howl, then drop it.
CleanupCurrentSound(W) ==
    IF W.hp.sound # NoSound
    THEN [HowlUnload(HowlStop(W, W.hp.sound), W.hp.sound) EXCEPT !.hp.sound = NoSound]
    ELSE W

\* Howler._unload(), the forced reclamation pass on the engine.
HowlerUnloadAll(W) == Log(W, "reclaim", 0, 0)

\* The pass when the engine throws in it.
HowlerUnloadThrows(W) == Log(W, "reclaim", 0, 1)

\* play(), pause(), stop(), toggle(): nothing without a bound Howl.
HP_play(W) == IF W.hp.sound # NoSound THEN HowlPlay(W, W.hp.sound) ELSE W

HP_pause(W) == IF W.hp.sound # NoSound THEN HowlPause(W, W.hp.sound) ELSE W

HP_stop(W) == IF W.hp.sound # NoSound THEN HowlStop(W, W.hp.sound) ELSE W

HP_toggle(W) ==
    IF W.hp.sound # NoSound
    THEN IF HowlPlaying(W, W.hp.sound) THEN HP_pause(W) ELSE HP_play(W)
    ELSE W

\* seek(seconds): Math.max(0, seconds) goes to the engine.  Nan is the
\* argument that is not a number; the other arguments are finite numbers.
Nan == -1000

IsFiniteNumber(x) == x # Nan

HP_seek(W, seconds) ==
    IF W.hp.sound # NoSound /\ IsFiniteNumber(seconds)
    THEN HowlSeek(W, W.hp.sound, Max(0, seconds))
    ELSE W

HP_getCurrentTime(W) == IF W.hp.sound = NoSound THEN 0 ELSE W.howls[W.hp.sound].pos

HP_getDuration(W) == IF W.hp.sound = NoSound THEN 0 ELSE HowlDuration(W, W.hp.sound)

HP_setVolume(W, v) ==
    IF W.hp.sound # NoSound /\ IsFiniteNumber(v)
    THEN HowlVolume(W, W.hp.sound, Max(0, Min(100, v)))
    ELSE W

HP_setRate(W, r) ==
    IF W.hp.sound # NoSound /\ IsFiniteNumber(r)
    THEN HowlRate(W, W.hp.sound, Max(50, Min(200, r)))
    ELSE W

\* What the engine does when load() runs: the length of Howler._html5Pool
\* (NoPool: the engine exposes no such array), and whether Howler._unload()
\* or new Howl() throws.
NoPool == -1
Env(pool, unloadThrows, createThrows) ==
    [pool |-> pool, unloadThrows |-> unloadThrows, createThrows |-> createThrows]

EngineEnvs ==
    { Env(NoPool, FALSE, FALSE), Env(179, FALSE, FALSE), Env(180, FALSE, FALSE),
      Env(180, TRUE, FALSE), Env(NoPool, FALSE, TRUE) }

\* A pool test that passes only above the mark.
PoolOverMark(env) == env.pool # NoPool /\ env.pool * 10 > Html5PoolSize * 9

PoolNearlyExhausted(env) == env.pool # NoPool /\ env.pool * 10 >= Html5PoolSize * 9

\* const poolUsage = Howler._html5Pool.length, read when the array exists.
PoolUsage(W, env) == IF env.pool # NoPool THEN Log(W, "poolUsage", 0, env.pool) ELSE W

\* load(url, callbacks): the promise executor.  The result is the world after
\* it; the promise is pending exactly when a Howl was created and bound
\* (LoadPending), otherwise it was rejected synchronously.
Reject(W) == Log(W, "reject", 0, 0)

\* A load() without the test of isDestroyed.
HP_loadUnchecked(W, url, cl, env) ==
    LET P == [W EXCEPT !.hp.loadPromise = TRUE]
    IN  IF ~isValidUrl(url, P.ui.origin) THEN Reject(P)
        ELSE LET C == CleanupCurrentSound(P)
             IN  [Log(C, "create", Len(C.howls) + 1, 0) EXCEPT
                     !.howls = Append(@, NewHowl(url.text, cl)),
                     !.hp.sound = Len(C.howls) + 1]

\* A load() that releases the bound Howl before it validates the URL.
HP_loadCleanupFirst(W, url, cl, env) ==
    LET P == [W EXCEPT !.hp.loadPromise = TRUE]
        C == CleanupCurrentSound(P)
    IN  IF P.hp.isDestroyed THEN Reject(P)
        ELSE IF ~isValidUrl(url, P.ui.origin) THEN Reject(C)
        ELSE [Log(C, "create", Len(C.howls) + 1, 0) EXCEPT
                 !.howls = Append(@, NewHowl(url.text, cl)),
                 !.hp.sound = Len(C.howls) + 1]

\* A load() that creates the new Howl before it releases the bound one.
HP_loadCreateFirst(W, url, cl, env) ==
    LET P == [W EXCEPT !.hp.loadPromise = TRUE]
        N == [Log(P, "create", Len(P.howls) + 1, 0) EXCEPT
                 !.howls = Append(@, NewHowl(url.text, cl))]
        C == IF P.hp.sound # NoSound
             THEN HowlUnload(HowlStop(N, P.hp.sound), P.hp.sound)
             ELSE N
    IN  IF P.hp.isDestroyed THEN Reject(P)
        ELSE IF ~isValidUrl(url, P.ui.origin) THEN Reject(P)
        ELSE [C EXCEPT !.hp.sound = Len(P.howls) + 1]

HP_load(W, url, cl, env) ==
    LET P == [W EXCEPT !.hp.loadPromise = TRUE]
    IN  IF P.hp.isDestroyed THEN Reject(P)
        ELSE IF ~isValidUrl(url, P.ui.origin) THEN Reject(P)
        ELSE LET C == PoolUsage(CleanupCurrentSound(P), env)
             IN  IF PoolNearlyExhausted(env) /\ env.unloadThrows
                 THEN Reject(HowlerUnloadThrows(C))
                 ELSE LET R == IF PoolNearlyExhausted(env) THEN HowlerUnloadAll(C) ELSE C
                      IN  IF env.createThrows THEN Reject(R)
                          ELSE [Log(R, "create", Len(R.howls) + 1, 0) EXCEPT
                                  !.howls = Append(@, NewHowl(url.text, cl)),
                                  !.hp.sound = Len(R.howls) + 1]

\* Whether the load() that led from W0 to W1 left its promise pending.
LoadPending(W0, W1) == Len(W1.howls) > Len(W0.howls)

\* A destroy() that flips isDestroyed instead of setting it.
HP_destroyToggles(W) ==
    HowlerUnloadAll(CleanupCurrentSound(
        [W EXCEPT !.hp.isDestroyed = ~@, !.hp.loadPromise = FALSE]))

\* destroy()
HP_destroy(W) ==
    HowlerUnloadAll(CleanupCurrentSound(
        [W EXCEPT !.hp.isDestroyed = TRUE, !.hp.loadPromise = FALSE]))

(***************************************************************************)
(* The player store (store/playerStore.js)                                 *)
(***************************************************************************)
NullTrack == [id |-> 0, url |-> JsNull]     \* currentTrack: null

Track(i, text) == [id |-> i, url |-> JsString(text)]

StoreInit ==
    [currentTrack |-> NullTrack, isPlaying |-> FALSE, isLoading |-> FALSE,
     currentTime |-> 0, duration |-> 0, volume |-> 100, playbackRate |-> 100,
     playlist |-> <<>>, currentTrackIndex |-> 0, repeatMode |-> "none",
     originalPlaylist |-> <<>>, shuffleMode |-> FALSE]

setCurrentTrack(W, track) == [W EXCEPT !.store.currentTrack = track]

setIsPlaying(W, b) == [W EXCEPT !.store.isPlaying = b]

setIsLoading(W, b) == [W EXCEPT !.store.isLoading = b]

setCurrentTime(W, t) == [W EXCEPT !.store.currentTime = t]

setDuration(W, d) == [W EXCEPT !.store.duration = d]

\* Math.max(lo, Math.min(hi, x)): Nan when x is Nan.
JsClamp(lo, hi, x) == IF x = Nan THEN Nan ELSE Max(lo, Min(hi, x))

\* setVolume and setPlaybackRate of the store, in hundredths.
setVolume(W, v) == [W EXCEPT !.store.volume = JsClamp(0, 100, v)]

setPlaybackRate(W, r) == [W EXCEPT !.store.playbackRate = JsClamp(50, 200, r)]

setPlaylist(W, pl) == [W EXCEPT !.store.playlist = pl, !.store.originalPlaylist = pl]

\* Array.findIndex on the track ids: the first index (from 0), or -1.
FindIndex(pl, id) ==
    IF \E k \in 1..Len(pl) : pl[k].id = id
    THEN (CHOOSE k \in 1..Len(pl) : pl[k].id = id /\ \A m \in 1..(k - 1) : pl[m].id # id) - 1
    ELSE -1

\* splice(k, 1), k from 0.
Splice(s, k) == SubSeq(s, 1, k) \o SubSeq(s, k + 2, Len(s))

\* [s[i], s[j]] = [s[j], s[i]], i and j from 0.
Swap(s, i, j) == [s EXCEPT ![i + 1] = s[j + 1], ![j + 1] = s[i + 1]]

\* The loop of the Fisher-Yates shuffle from index i down to 1; draws[i] is
\* Math.floor(Math.random() * (i + 1)), a value of 0..i.
RECURSIVE FisherYates(_, _, _)
FisherYates(s, i, draws) ==
    IF i <= 0 THEN s ELSE FisherYates(Swap(s, i, draws[i]), i - 1, draws)

\* What Math.random can draw for the playlists of at most MaxTracks tracks.
MaxTracks == 3
ShuffleDraws == {d \in [1..(MaxTracks - 1) -> 0..(MaxTracks - 1)] : \A i \in DOMAIN d : d[i] <= i}

\* A toggle that, switching shuffle off, puts the cursor on the first track.
toggleShuffleRewinds(W, draws) ==
    LET currentTrack == W.store.currentTrack
        currentIndex == FindIndex(W.store.playlist, currentTrack.id)
        rest == IF currentIndex # -1 THEN Splice(W.store.playlist, currentIndex)
                ELSE W.store.playlist
        mixed == FisherYates(rest, Len(rest) - 1, draws)
        shuffled == IF currentTrack # NullTrack /\ currentIndex # -1
                    THEN <<currentTrack>> \o mixed ELSE mixed
    IN  IF ~W.store.shuffleMode
        THEN [W EXCEPT !.store.shuffleMode = TRUE, !.store.playlist = shuffled,
                       !.store.currentTrackIndex = 0]
        ELSE [W EXCEPT !.store.shuffleMode = FALSE,
                       !.store.playlist = W.store.originalPlaylist,
                       !.store.currentTrackIndex = 0]

toggleShuffle(W, draws) ==
    LET currentTrack == W.store.currentTrack
        currentIndex == FindIndex(W.store.playlist, currentTrack.id)
        rest == IF currentIndex # -1 THEN Splice(W.store.playlist, currentIndex)
                ELSE W.store.playlist
        mixed == FisherYates(rest, Len(rest) - 1, draws)
        shuffled == IF currentTrack # NullTrack /\ currentIndex # -1
                    THEN <<currentTrack>> \o mixed ELSE mixed
        newIndex == FindIndex(W.store.originalPlaylist, currentTrack.id)
    IN  IF ~W.store.shuffleMode
        THEN [W EXCEPT !.store.shuffleMode = TRUE, !.store.playlist = shuffled,
                       !.store.currentTrackIndex = 0]
        ELSE [W EXCEPT !.store.shuffleMode = FALSE,
                       !.store.playlist = W.store.originalPlaylist,
                       !.store.currentTrackIndex = IF newIndex >= 0 THEN newIndex ELSE 0]

setRepeatMode(W, m) == [W EXCEPT !.store.repeatMode = m]

\* playlist[i] of the zero-based JavaScript array, NullTrack for undefined.
At(pl, i) == IF i + 1 \in 1..Len(pl) THEN pl[i + 1] ELSE NullTrack

setCurrentTrackIndex(W, index) ==
    IF index >= 0 /\ index < Len(W.store.playlist)
    THEN [W EXCEPT !.store.currentTrackIndex = index,
                   !.store.currentTrack = At(W.store.playlist, index)]
    ELSE W

\* nextTrack(): the value it returns, and the store after it.
nextTrackRet(W) ==
    \/ W.store.repeatMode = "one"
    \/ W.store.currentTrackIndex + 1 < Len(W.store.playlist)
    \/ W.store.repeatMode = "all"

nextTrack(W) ==
    LET nextIndex == W.store.currentTrackIndex + 1
    IN  IF W.store.repeatMode = "one" THEN W
        ELSE IF nextIndex < Len(W.store.playlist)
        THEN [W EXCEPT !.store.currentTrackIndex = nextIndex,
                       !.store.currentTrack = At(W.store.playlist, nextIndex)]
        ELSE IF W.store.repeatMode = "all"
        THEN [W EXCEPT !.store.currentTrackIndex = 0,
                       !.store.currentTrack = At(W.store.playlist, 0)]
        ELSE W

previousTrackRet(W) == W.store.currentTrackIndex - 1 >= 0

\* A previousTrack() that goes from the first track to the last.
previousTrackWraps(W) ==
    LET prevIndex == IF W.store.currentTrackIndex = 0
                     THEN Len(W.store.playlist) - 1
                     ELSE W.store.currentTrackIndex - 1
    IN  IF prevIndex >= 0
        THEN [W EXCEPT !.store.currentTrackIndex = prevIndex,
                       !.store.currentTrack = At(W.store.playlist, prevIndex)]
        ELSE W

previousTrack(W) ==
    LET prevIndex == W.store.currentTrackIndex - 1
    IN  IF prevIndex >= 0
        THEN [W EXCEPT !.store.currentTrackIndex = prevIndex,
                       !.store.currentTrack = At(W.store.playlist, prevIndex)]
        ELSE W

(***************************************************************************)
(* The AudioPlayer component (components/AudioPlayer.js).  A handler or a  *)
(* callback reads the values of the render that created it: loadTrack      *)
(* reads that render's isLoading, and the callbacks it hands to load()     *)
(* keep that render's isPlaying, playbackRate, volume and handleTrackEnd   *)
(* (hence its repeatMode) for as long as the Howl lives.  The render that  *)
(* runs an effect or a click handler is the one of the store's current     *)
(* values, so a closure is taken from the store when loadTrack runs.       *)
(***************************************************************************)
NoError == <<>>                             \* error: null
LoadFailed == <<"Failed to load audio file">>

\* setError of useState: nothing once the component has unmounted.
setError(W, e) == IF W.ui.mounted THEN [W EXCEPT !.ui.error = e] ELSE W

Closure(W) ==
    [bag |-> "player", isPlaying |-> W.store.isPlaying, repeatMode |-> W.store.repeatMode,
     playbackRate |-> W.store.playbackRate, volume |-> W.store.volume,
     userRate |-> W.ui.userRate]

handlePlay(W) == IF W.ui.playerRef THEN setIsPlaying(HP_play(W), TRUE) ELSE W

handlePause(W) == IF W.ui.playerRef THEN setIsPlaying(HP_pause(W), FALSE) ELSE W

handlePlayPause(W) == IF W.store.isPlaying THEN handlePause(W) ELSE handlePlay(W)

handleSeek(W, time) ==
    IF ~IsFiniteNumber(time) THEN W
    ELSE IF W.ui.playerRef THEN setCurrentTime(HP_seek(W, time), time)
    ELSE W

\* A catch block that leaves the loading flag as it is.
LoadCatchKeepsLoading(W) == setError(setDuration(W, 0), LoadFailed)

\* handleSkipForward and handleSkipBackward (lines 298-309).
SkipStep == 10

handleSkipForward(W) ==
    handleSeek(W, Min(W.store.currentTime + SkipStep, W.store.duration))

handleSkipBackward(W) ==
    handleSeek(W, Max(W.store.currentTime - SkipStep, 0))

(***************************************************************************)
(* ProgressBar (components/TrackItem.js, lines 863-960), with the props    *)
(* AudioPlayer gives it: currentTime and duration of the store and         *)
(* onSeek = handleSeek.  Its own handleSeek(e) takes a mouse event and     *)
(* reads e.clientX; the key handler calls it with a number, whose clientX  *)
(* is undefined, and arithmetic on undefined gives Nan.                    *)
(***************************************************************************)
BarRect == [left |-> 10, width |-> 4]        \* getBoundingClientRect()

MouseEvent(x) == [kind |-> "mouse", clientX |-> x]
NumberArg(n) == [kind |-> "number", clientX |-> Nan, value |-> n]

\* handleSeek(e) of the ProgressBar in a render that is not dragging.
ProgressBarHandleSeek(W, e) ==
    IF W.store.duration = 0 THEN W
    ELSE LET x == IF e.clientX = Nan THEN Nan
                  ELSE Max(0, Min(e.clientX - BarRect.left, BarRect.width))
             time == IF x = Nan THEN Nan ELSE (x * W.store.duration) \div BarRect.width
         IN  handleSeek(W, time)

SeekKeys == {"ArrowLeft", "ArrowRight", "Home", "End", "PageUp", "PageDown"}

\* The position the key handler computes (lines 935-958).
KeyTime(key, currentTime, duration) ==
    CASE key = "ArrowLeft" -> Max(0, currentTime - 5)
      [] key = "ArrowRight" -> Min(duration, currentTime + 5)
      [] key = "Home" -> 0
      [] key = "End" -> duration
      [] key = "PageUp" -> Min(duration, currentTime + 30)
      [] key = "PageDown" -> Max(0, currentTime - 30)

ProgressBarKeyDown(W, key) ==
    ProgressBarHandleSeek(W, NumberArg(KeyTime(key, W.store.currentTime, W.store.duration)))

\* The catch block of loadTrack.
LoadCatch(W) == setError(setDuration(setIsLoading(W, FALSE), 0), LoadFailed)

\* loadTrack past its guards: the store updates, then player.load().  A load
\* rejected synchronously reaches the catch block in the same task.
LoadTrackBody(W, track, env) ==
    LET A == setCurrentTrack(setIsLoading(setError(W, NoError), TRUE), track)
        B == HP_load(A, track.url, Closure(W), env)
    IN  IF ~A.ui.playerRef THEN LoadCatch(A)
        ELSE IF LoadPending(A, B) THEN B
        ELSE LoadCatch(B)

loadTrack(W, track, env) ==
    IF track = NullTrack \/ ~Truthy(track.url) THEN W
    ELSE IF W.store.isLoading THEN W
    ELSE LoadTrackBody(W, track, env)

\* The effect on [currentTrackIndex]: it runs after a task that changed the
\* index, while the component is mounted.
LoadEffect(W0, W1, env) ==
    IF /\ W1.ui.mounted
       /\ W1.store.currentTrackIndex # W0.store.currentTrackIndex
       /\ At(W1.store.playlist, W1.store.currentTrackIndex) # NullTrack
    THEN loadTrack(W1, At(W1.store.playlist, W1.store.currentTrackIndex), env)
    ELSE W1

\* handleTrackEnd, of the render whose repeatMode is `repeatMode`.
handleTrackEnd(W, repeatMode) ==
    IF repeatMode = "one"
    THEN handlePlay(handleSeek(W, 0))
    ELSE IF nextTrackRet(W) THEN nextTrack(W)
         ELSE setIsPlaying(nextTrack(W), FALSE)

handleNext(W) ==
    LET hasNext == nextTrackRet(W)
        N == nextTrack(W)
    IN  IF hasNext /\ W.store.repeatMode = "one"
        THEN LET S == handleSeek(N, 0)
             IN  IF W.store.isPlaying THEN handlePlay(S) ELSE S
        ELSE N

handlePrevious(W) ==
    IF W.store.currentTime > RestartThreshold
    THEN handleSeek(W, 0)
    ELSE previousTrack(W)

\* The callbacks loadTrack hands to load(): onLoad, onEnd, onError.
\* An engine error is the list of the words of its message (<<>>: none).
Includes(msg, w) == \E i \in 1..Len(msg) : msg[i] = w

ErrorMessage(err) ==
    IF err = <<>> THEN LoadFailed
    ELSE IF Includes(err, "Decoding audio data failed")
    THEN <<"Audio file format not supported or corrupted">>
    ELSE IF Includes(err, "404") THEN <<"Audio file not found">>
    ELSE IF Includes(err, "403") THEN <<"Access denied to audio file">>
    ELSE err

EngineErrors ==
    {<<>>, <<"Decoding audio data failed">>, <<"404">>, <<"403", "404">>, <<"timeout">>}

cbOnLoad(W, cl) ==
    IF ~W.ui.playerRef THEN W
    ELSE LET A == setError(setIsLoading(setDuration(W, HP_getDuration(W)), FALSE), NoError)
             B == IF cl.playbackRate # 0 THEN HP_setRate(A, cl.playbackRate) ELSE A
         IN  IF W.ui.autoplay \/ cl.isPlaying THEN handlePlay(B) ELSE B

\* After the await: the volume of the render is applied.
AfterLoad(W, cl) == IF W.ui.playerRef THEN HP_setVolume(W, cl.volume) ELSE W

cbOnError(W, err) ==
    setError(setDuration(setIsLoading(W, FALSE), 0), ErrorMessage(err))

(***************************************************************************)
(* The listeners HowlerPlayer.load() registers on the Howl (lines 403-428) *)
(* call the callbacks object they were given.  Two callers hand one in:    *)
(* loadTrack ("player": onLoad, onEnd, onError above, and the code after   *)
(* its await) and a probe that supplies all seven callbacks and only       *)
(* records that it was called.                                             *)
(***************************************************************************)
Supplied(bag) ==
    IF bag = "player" THEN {"onLoad", "onEnd", "onError"}
    ELSE {"onLoad", "onEnd", "onError", "onPlay", "onPause", "onStop", "onSeek"}

Probe(W, name, h) == Log(W, name, h, 0)

onload(W, h) ==
    LET cl == W.howls[h].cl
    IN  IF ~W.hp.isDestroyed
        THEN IF cl.bag = "player"
             THEN AfterLoad(Log(cbOnLoad(W, cl), "resolve", h, 0), cl)
             ELSE Log(Probe(W, "onLoad", h), "resolve", h, 0)
        ELSE W

\* A listener that reports the error and leaves the promise pending.
onloaderrorPending(W, h, err) ==
    LET cl == W.howls[h].cl
    IN  IF cl.bag = "player"
        THEN cbOnError(W, err)
        ELSE Probe(W, "onError", h)

\* onloaderror: callbacks.onError(error), then reject(error); loadTrack's
\* catch block follows the rejection.
onloaderror(W, h, err) ==
    LET cl == W.howls[h].cl
    IN  IF cl.bag = "player"
        THEN LoadCatch(Reject(cbOnError(W, err)))
        ELSE Reject(Probe(W, "onError", h))

onend(W, h, env) ==
    LET cl == W.howls[h].cl
    IN  IF ~W.hp.isDestroyed
        THEN IF cl.bag = "player"
             THEN LoadEffect(W, handleTrackEnd(W, cl.repeatMode), env)
             ELSE Probe(W, "onEnd", h)
        ELSE W

\* onplay, onpause, onstop, onseek
onother(W, h, name) ==
    IF ~W.hp.isDestroyed /\ name \in Supplied(W.howls[h].cl.bag)
    THEN Probe(W, name, h)
    ELSE W

(***************************************************************************)
(* The state machine.  One action is one task of the event loop; the log   *)
(* of an action starts with the action's name.                             *)
(***************************************************************************)
UrlA == <<"h", "t", "t", "p", "s", ":", "/", "/", "h", "/", "a">>
UrlB == <<"h", "t", "t", "p", "s", ":", "/", "/", "h", "/", "b">>
UrlC == <<"h", "t", "t", "p", ":", "/", "/", "h", "/", "c">>
UrlNoHost == <<"h", "t", "t", "p", "s", ":", "/", "/">>

GoodTracks == <<Track(1, UrlA), Track(2, UrlB), Track(3, UrlC)>>

\* The playlists of the block: three tracks, three with an unparsable URL
\* in the middle (it passes the prefix filter of view.js, lines 53-60), or
\* a single track.
TrackConfigs ==
    { GoodTracks, <<Track(1, UrlA), Track(2, UrlNoHost), Track(3, UrlC)>>,
      <<Track(1, UrlA)>> }

HpInit == [sound |-> NoSound, isDestroyed |-> FALSE, loadPromise |-> FALSE]

\* The class before any instance: no timer.  `Howler` is an import of the
\* module, so `typeof Howler !== 'undefined'` holds.
StaticsInit == [initialized |-> FALSE, cleanupTimers |-> 0, monitorTimers |-> 0, players |-> 0]

\* A constructor that starts its timers for every instance.
ConstructedAlways(T) ==
    [T EXCEPT !.initialized = TRUE, !.cleanupTimers = @ + 1, !.monitorTimers = @ + 1,
              !.players = @ + 1]

\* The static part of the constructor (lines 283-297).
Constructed(T) ==
    IF ~T.initialized
    THEN [T EXCEPT !.initialized = TRUE, !.cleanupTimers = @ + 1,
                   !.monitorTimers = @ + 1, !.players = @ + 1]
    ELSE [T EXCEPT !.players = @ + 1]

\* new HowlerPlayer()
NewHowlerPlayer(W) == [W EXCEPT !.hp = HpInit, !.statics = Constructed(@)]

(***************************************************************************)
(* The REST rate limiter (includes/rest-api.php)                           *)
(*                                                                         *)
(* WordPress transients hold, for each key, the number of requests counted *)
(* and the number of violations.  A transient that does not exist reads as *)
(* false (NoTransient).  Every PHP request runs in a worker of its own and *)
(* get_transient / set_transient are separate accesses to the shared       *)
(* storage, so two requests can both read before either writes.            *)
(***************************************************************************)
NoTransient == 0

Localhost == "127.0.0.1"
Remote == "203.0.113.7"
RateKeys == {Localhost, Remote}

\* FLUXWAVE_ADMIN_IPS is defined nowhere in the plugin.
fluxwave_is_whitelisted_ip(ip) == ip \in {"127.0.0.1", "::1", "localhost"}

\* The limit the metadata route passes (line 182).
RouteLimits == {60}

\* n >= a / b for integers n, as PHP compares an int with the float a / b.
CeilDiv(a, b) == (a + b - 1) \div b

fluxwave_get_adaptive_limit(T, ip, default_limit) ==
    LET violations == T.violations[ip] IN
    IF violations = NoTransient THEN default_limit
    ELSE IF violations > 5 THEN Max(10, CeilDiv(default_limit, 4))
    ELSE IF violations > 2 THEN Max(20, CeilDiv(default_limit, 2))
    ELSE default_limit

fluxwave_track_rate_limit_violation(T, ip) ==
    [T EXCEPT !.violations[ip] = IF @ = NoTransient THEN 1 ELSE @ + 1]

FastWorker == "fast"
SlowWorker == "slow"
PhpWorkers == {FastWorker, SlowWorker}

WorkerIdle == [pc |-> "idle", key |-> Localhost, limit |-> 0, requests |-> 0, adaptive |-> 0]

NoDecision == [op |-> "none", key |-> Localhost, limit |-> 0, requests |-> 0, adaptive |-> 0,
               allowed |-> FALSE]

Decision(w, allowed) ==
    [op |-> "check", key |-> w.key, limit |-> w.limit, requests |-> w.requests,
     adaptive |-> w.adaptive, allowed |-> allowed]

\* The permission callback of the routes (fluxwave_validate_api_request).
\* batch: the fluxwave_batch_ transient of each client IP; admitted: the
\* requests of the IP that passed the batch check since the transient last
\* did not exist (history); batchLast: the last call and its result.
BatchLimit == 10
MaxContentLength == 1024

NoValidation == [op |-> "none", ip |-> Localhost, seen |-> 0, result |-> "none"]

\* What the checks after the batch check answer (steps 3 to 8).
LaterChecks ==
    {"true", "not_authenticated", "session_expired", "insufficient_permissions",
     "invalid_nonce", "invalid_user_agent", "suspicious_request"}

\* Content-Length headers: absent (0), within and over the size limit.
ContentLengths == {0, 512, 2048}

fluxwave_validate_api_request(T, ip, content_length, later) ==
    LET batch_requests == T.batch[ip]
        Done(result) == [op |-> "validate", ip |-> ip, seen |-> batch_requests,
                         result |-> result] IN
    IF content_length # 0 /\ content_length > MaxContentLength
    THEN [T EXCEPT !.batchLast = Done("request_too_large")]
    ELSE IF batch_requests > BatchLimit
    THEN [T EXCEPT !.batchLast = Done("batch_limit_exceeded")]
    ELSE [T EXCEPT !.batch[ip] = batch_requests + 1,
                   !.admitted[ip] = @ + 1,
                   !.batchLast = Done(later)]

\* requests / violations: the transients; allowed: the requests of a key
\* that is not whitelisted let through since its counter last did not exist
\* (history).
WpInit ==
    [requests |-> [k \in RateKeys |-> NoTransient],
     violations |-> [k \in RateKeys |-> NoTransient],
     allowed |-> [k \in RateKeys |-> 0],
     workers |-> [w \in PhpWorkers |-> WorkerIdle],
     last |-> NoDecision,
     batch |-> [k \in RateKeys |-> NoTransient],
     admitted |-> [k \in RateKeys |-> 0],
     batchLast |-> NoValidation]

\* fluxwave_check_rate_limit up to the reads (lines 68-77): a whitelisted
\* key returns true at once; otherwise the counter and the adaptive limit
\* are read.
CheckRead(T, w, key, limit) ==
    LET me == [pc |-> "read", key |-> key, limit |-> limit, requests |-> T.requests[key],
               adaptive |-> fluxwave_get_adaptive_limit(T, key, limit)] IN
    IF fluxwave_is_whitelisted_ip(key)
    THEN [T EXCEPT !.last = Decision([me EXCEPT !.requests = 0, !.adaptive = 0], TRUE)]
    ELSE [T EXCEPT !.workers[w] = me]

\* The rest of fluxwave_check_rate_limit (lines 79-98), on the values read.
CheckDecide(T, w) ==
    LET me == T.workers[w]
        D == [T EXCEPT !.workers[w] = WorkerIdle] IN
    IF me.requests = NoTransient
    THEN [D EXCEPT !.requests[me.key] = 1, !.allowed[me.key] = @ + 1,
                   !.last = Decision(me, TRUE)]
    ELSE IF me.requests >= me.adaptive
    THEN [fluxwave_track_rate_limit_violation(D, me.key) EXCEPT !.last = Decision(me, FALSE)]
    ELSE [D EXCEPT !.requests[me.key] = me.requests + 1, !.allowed[me.key] = @ + 1,
                   !.last = Decision(me, TRUE)]

(***************************************************************************)
(* The frontend script (view.js)                                           *)
(*                                                                         *)
(* rootInstances is a Map from the container of a block to its React       *)
(* root; a Map iterates in insertion order, so it is a sequence of entries *)
(* with distinct containers.  roots lists every root createRoot returned:  *)
(* its container and whether it is mounted.  last is the function that    *)
(* ran last, with the roots it called unmount() on and those of them whose *)
(* unmount() threw before the root was taken down (history).               *)
(***************************************************************************)
NoRoot == 0

Ran(op) == [op |-> op, called |-> {}, threwBefore |-> {}]

PageInit == [rootInstances |-> <<>>, roots |-> <<>>, last |-> Ran("none")]

MapHas(m, c) == \E i \in 1..Len(m) : m[i].container = c

MapGet(m, c) == IF MapHas(m, c) THEN (CHOOSE i \in 1..Len(m) : m[i].container = c) ELSE 0

MapDelete(m, c) == SelectSeq(m, LAMBDA e : e.container # c)

MapSet(m, c, r) ==
    IF MapHas(m, c)
    THEN [m EXCEPT ![MapGet(m, c)] = [container |-> c, root |-> r]]
    ELSE Append(m, [container |-> c, root |-> r])

\* What the attribute data-player-config and the markup of a block can be:
\* a valid configuration, no attribute, text that JSON.parse rejects, JSON
\* that is no object, and a block without its container element.
BlockConfigs == {"ok", "none", "badjson", "notobject", "nocontainer"}

\* root.unmount(): it returns, or it throws before or after the root was
\* taken down.
UnmountOutcomes == {"returns", "throwsBefore", "throwsAfter"}

RootUnmount(P, r, how) ==
    [P EXCEPT !.roots[r].mounted = IF how = "throwsBefore" THEN @ ELSE FALSE,
              !.last.called = @ \cup {r},
              !.last.threwBefore = IF how = "throwsBefore" THEN @ \cup {r} ELSE @]

\* The body of the forEach of initPlayers for block b (lines 28-91), whose
\* container is element b.
InitBlock(P, b, cfg, how) ==
    IF cfg # "ok" THEN P
    ELSE LET i == MapGet(P.rootInstances, b)
             existingRoot == IF i = 0 THEN NoRoot ELSE P.rootInstances[i].root
             U == IF existingRoot = NoRoot THEN P
                  ELSE RootUnmount(P, existingRoot, how[existingRoot])
             D == [U EXCEPT !.rootInstances = MapDelete(@, b)]
             root == Len(D.roots) + 1
         IN  IF existingRoot # NoRoot /\ how[existingRoot] # "returns"
             THEN U
             ELSE [D EXCEPT !.roots = Append(@, [container |-> b, mounted |-> TRUE]),
                            !.rootInstances = MapSet(@, b, root)]

RECURSIVE InitBlocks(_, _, _, _)
InitBlocks(P, b, cfgs, how) ==
    IF b > Len(cfgs) THEN P
    ELSE InitBlocks(InitBlock(P, b, cfgs[b], how), b + 1, cfgs, how)

initPlayers(P, cfgs, how) ==
    InitBlocks([P EXCEPT !.last = Ran("initPlayers")], 1, cfgs, how)

\* A cleanup whose forEach has no try/catch: the first unmount that throws
\* ends it, and clear() is not reached.
RECURSIVE CleanupFrom(_, _, _)
CleanupFrom(P, i, how) ==
    IF i > Len(P.rootInstances) THEN [P EXCEPT !.rootInstances = <<>>]
    ELSE LET r == P.rootInstances[i].root
         IN  IF how[r] # "returns" THEN RootUnmount(P, r, how[r])
             ELSE CleanupFrom(RootUnmount(P, r, how[r]), i + 1, how)

cleanupPlayersUnguarded(P, how) ==
    CleanupFrom([P EXCEPT !.last = Ran("cleanupPlayers")], 1, how)

RECURSIVE CleanupEach(_, _, _)
CleanupEach(P, i, how) ==
    IF i > Len(P.rootInstances) THEN P
    ELSE CleanupEach(RootUnmount(P, P.rootInstances[i].root, how[P.rootInstances[i].root]),
                     i + 1, how)

\* cleanupPlayers (lines 98-107): every unmount is tried, then clear().
cleanupPlayers(P, how) ==
    [CleanupEach([P EXCEPT !.last = Ran("cleanupPlayers")], 1, how)
        EXCEPT !.rootInstances = <<>>]

\* The props of the component (autoplay, loop, tracks) with its state.
\* userPlay records that the user has asked this player to play, userRate
\* the playback rate the user chose last (0: none); a closure keeps the
\* userRate of the moment its load began.
UiInit(autoplay, loop, tracks) ==
    [mounted |-> FALSE, playerRef |-> FALSE, error |-> NoError,
     autoplay |-> autoplay, loop |-> loop, tracks |-> tracks, origin |-> Https,
     userPlay |-> FALSE, userRate |-> 0]

UrlIdle == [value |-> JsNull, origin |-> Https]

Begin(name) == Log(World, name, 0, 0)

\* The page before the component mounts.
Init ==
    /\ store = StoreInit
    /\ hp = HpInit
    /\ howls = <<>>
    /\ \E ap \in BOOLEAN, lp \in BOOLEAN, tr \in TrackConfigs : ui = UiInit(ap, lp, tr)
    /\ calls = <<[op |-> "Init", h |-> 0, arg |-> 0]>>
    /\ urlIn = UrlIdle
    /\ urlOut = "idle"
    /\ statics = StaticsInit
    /\ wp = WpInit
    /\ page = PageInit

\* The step to world W.
Apply(W) ==
    /\ Len(W.howls) <= MaxHowls
    /\ store' = W.store
    /\ hp' = W.hp
    /\ howls' = Settle(W.howls)
    /\ ui' = W.ui
    /\ calls' = W.calls
    /\ statics' = W.statics
    /\ UNCHANGED <<urlIn, urlOut, wp, page>>

\* Mount: the effects of the first render, in order (lines 47-143): create
\* the HowlerPlayer, set the playlist and the first track, load the current
\* track, apply the playback rate.
MountEffects(W, env) ==
    LET A == [NewHowlerPlayer(W) EXCEPT !.ui.mounted = TRUE, !.ui.playerRef = TRUE]
        B == IF Len(A.ui.tracks) > 0
             THEN LET P == setPlaylist(A, A.ui.tracks)
                  IN  IF W.store.currentTrack = NullTrack
                      THEN setCurrentTrackIndex(P, 0) ELSE P
             ELSE A
        t == At(B.store.playlist, B.store.currentTrackIndex)
        L == IF t # NullTrack THEN loadTrack(B, t, env) ELSE B
    IN  IF L.ui.playerRef /\ W.store.playbackRate # 0
        THEN HP_setRate(L, W.store.playbackRate)
        ELSE L

Mount ==
    /\ ~ui.mounted /\ ~hp.isDestroyed
    /\ \E env \in EngineEnvs : Apply(MountEffects(Begin("Mount"), env))

\* Unmount: the cleanup of the mount effect (lines 62-71).
UnmountCleanup(W) ==
    IF W.ui.playerRef
    THEN [HP_destroy(W) EXCEPT !.ui.playerRef = FALSE, !.ui.mounted = FALSE]
    ELSE [W EXCEPT !.ui.mounted = FALSE]

Unmount ==
    /\ ui.mounted
    /\ Apply(UnmountCleanup(Begin("Unmount")))

ClickPlayPause ==
    /\ ui.mounted
    /\ Apply(handlePlayPause(
         [Begin("ClickPlayPause") EXCEPT !.ui.userPlay = @ \/ ~store.isPlaying]))

ClickNext ==
    /\ ui.mounted
    /\ \E env \in EngineEnvs :
         Apply(LoadEffect(World, handleNext(Begin("ClickNext")), env))

ClickPrevious ==
    /\ ui.mounted
    /\ \E env \in EngineEnvs :
         Apply(LoadEffect(World, handlePrevious(Begin("ClickPrevious")), env))

\* The "Try Again" button of the error overlay (lines 530-536).
TryAgain(W, env) ==
    LET A == setError(W, NoError)
    IN  IF W.store.currentTrack # NullTrack
        THEN loadTrack(A, W.store.currentTrack, env)
        ELSE A

ClickTryAgain ==
    /\ ui.mounted /\ ui.error # NoError
    /\ \E env \in EngineEnvs : Apply(TryAgain(Begin("ClickTryAgain"), env))

\* The store's setRepeatMode, called by the page; the store exists from the
\* time the script is loaded, before the component mounts.
SetRepeatMode ==
    /\ ~hp.isDestroyed
    /\ \E m \in RepeatModes \ {store.repeatMode} :
         Apply(setRepeatMode(Begin("SetRepeatMode"), m))

\* updatePlaybackTime, on an animation frame while playing (lines 231-249).
updatePlaybackTime(W) ==
    IF W.ui.playerRef /\ W.store.isPlaying
    THEN setCurrentTime(W, HP_getCurrentTime(W))
    ELSE W

AnimationFrame ==
    /\ ui.mounted /\ store.isPlaying
    /\ store.currentTime # HP_getCurrentTime(World)
    /\ Apply(updatePlaybackTime(Begin("AnimationFrame")))

(***************************************************************************)
(* The engine                                                              *)
(***************************************************************************)
EmitLoad ==
    \E h \in 1..Len(howls) :
      /\ howls[h].st = "loading" /\ howls[h].outcome = "none"
      /\ Apply([Begin("EmitLoad") EXCEPT !.howls[h].st = "loaded",
                                         !.howls[h].outcome = "load",
                                         !.howls[h].q = "load",
                                         !.howls[h].playing = howls[h].queuedPlay,
                                         !.howls[h].queuedPlay = FALSE])

EmitLoadError ==
    \E h \in 1..Len(howls) :
      /\ howls[h].st = "loading" /\ howls[h].outcome = "none"
      /\ Apply([Begin("EmitLoadError") EXCEPT !.howls[h].outcome = "loaderror",
                                              !.howls[h].q = "loaderror"])

\* Playback advances to the last instant of the track.
Tick ==
    \E h \in 1..Len(howls) :
      /\ howls[h].playing /\ howls[h].pos < TrackDur
      /\ Apply([Begin("Tick") EXCEPT !.howls[h].pos = TrackDur])

\* The track plays to its end: the engine stops it and rewinds.
EmitEnd ==
    \E h \in 1..Len(howls) :
      /\ howls[h].playing /\ howls[h].q = "none"
      /\ Apply([Begin("EmitEnd") EXCEPT !.howls[h].playing = FALSE,
                                        !.howls[h].pos = 0,
                                        !.howls[h].q = "end"])

\* The zero-delay timers of the engine run the listeners.
Dequeue(W, h) == [W EXCEPT !.howls[h].q = "none"]

DeliverLoad ==
    \E h \in 1..Len(howls) :
      /\ howls[h].q = "load"
      /\ Apply(onload(Dequeue(Log(World, "DeliverLoad", h, 0), h), h))

DeliverLoadError ==
    \E h \in 1..Len(howls), err \in EngineErrors :
      /\ howls[h].q = "loaderror"
      /\ Apply(onloaderror(Dequeue(Log(World, "DeliverLoadError", h, err), h), h, err))

DeliverEnd ==
    \E h \in 1..Len(howls), env \in EngineEnvs :
      /\ howls[h].q = "end"
      /\ Apply(onend(Dequeue(Log(World, "DeliverEnd", h, 0), h), h, env))

\* onplay, onpause, onstop and onseek of a Howl that had loaded.
DeliverOther ==
    \E h \in 1..Len(howls), name \in {"onPlay", "onPause", "onStop", "onSeek"} :
      /\ howls[h].outcome \in {"load", "spent"}
      /\ Apply(onother(Log(World, "DeliverOther", h, 0), h, name))

\* The block on a page: the component with its store, its HowlerPlayer and
\* the engine; the page does not change the repeat mode and the positions
\* are not followed.
Next ==
    \/ Mount \/ Unmount
    \/ ClickPlayPause \/ ClickNext \/ ClickPrevious \/ ClickTryAgain
    \/ EmitLoad \/ EmitLoadError \/ EmitEnd
    \/ DeliverLoad \/ DeliverLoadError \/ DeliverEnd

Spec == Init /\ [][Next]_vars

(***************************************************************************)
(* The block with one or two tracks that load, on a page that changes the  *)
(* repeat mode through the store; the positions are followed.              *)
(***************************************************************************)
TrackPair == <<Track(1, UrlA), Track(2, UrlB)>>

RepeatPlaylists == {TrackPair, <<Track(1, UrlA)>>}

InitRepeat ==
    /\ store = StoreInit
    /\ hp = HpInit
    /\ howls = <<>>
    /\ \E ap \in BOOLEAN, tr \in RepeatPlaylists : ui = UiInit(ap, FALSE, tr)
    /\ calls = <<[op |-> "Init", h |-> 0, arg |-> 0]>>
    /\ urlIn = UrlIdle
    /\ urlOut = "idle"
    /\ statics = StaticsInit
    /\ wp = WpInit
    /\ page = PageInit

NextRepeat ==
    \/ Mount \/ SetRepeatMode
    \/ ClickPlayPause \/ ClickNext
    \/ AnimationFrame
    \/ EmitLoad \/ Tick \/ EmitEnd
    \/ DeliverLoad \/ DeliverEnd

SpecRepeat == InitRepeat /\ [][NextRepeat]_vars

(***************************************************************************)
(* The block on a page that holds a second block.  The store is one object *)
(* of the script (playerStore.js, line 10), so the handlers of the other   *)
(* block's component act on the same store; its engine calls are on its    *)
(* own HowlerPlayer and are not followed.                                  *)
(***************************************************************************)
\* handlePlayPause of the other block.
PeerHandlePlayPause(W) == setIsPlaying(W, ~W.store.isPlaying)

PeerClickPlayPause ==
    /\ ui.mounted
    /\ Apply(PeerHandlePlayPause(Begin("PeerClickPlayPause")))

\* handleNext of the other block; the change of the index runs the load
\* effect of this block too.
PeerHandleNext(W) ==
    LET N == nextTrack(W)
    IN  IF nextTrackRet(W) /\ W.store.repeatMode = "one"
        THEN setCurrentTime(N, 0)
        ELSE N

PeerClickNext ==
    /\ ui.mounted
    /\ \E env \in EngineEnvs :
         Apply(LoadEffect(World, PeerHandleNext(Begin("PeerClickNext")), env))

InitPage ==
    /\ store = StoreInit
    /\ hp = HpInit
    /\ howls = <<>>
    /\ \E ap \in BOOLEAN : ui = UiInit(ap, FALSE, GoodTracks)
    /\ calls = <<[op |-> "Init", h |-> 0, arg |-> 0]>>
    /\ urlIn = UrlIdle
    /\ urlOut = "idle"
    /\ statics = StaticsInit
    /\ wp = WpInit
    /\ page = PageInit

NextPage ==
    \/ Mount
    \/ ClickPlayPause \/ ClickNext
    \/ PeerClickPlayPause \/ PeerClickNext
    \/ EmitLoad \/ EmitEnd
    \/ DeliverLoad \/ DeliverEnd

SpecPage == InitPage /\ [][NextPage]_vars

(***************************************************************************)
(* The seek handler on its own: handleSeek is the onSeek prop of the       *)
(* progress bar (AudioPlayer.js, line 490) and is applied here to numbers  *)
(* below, inside and above the range of the track, and to Nan.             *)
(***************************************************************************)
SeekInputs == {Nan, -5, 3, TrackDur + 2}

SeekTo ==
    /\ ui.mounted
    /\ \E t \in SeekInputs : Apply(handleSeek(Log(World, "SeekTo", 0, t), t))

NextSeek ==
    \/ Mount
    \/ ClickPlayPause
    \/ SeekTo
    \/ EmitLoad \/ EmitLoadError
    \/ DeliverLoad \/ DeliverLoadError

SpecSeek == Init /\ [][NextSeek]_vars

(***************************************************************************)
(* The seek controls of the block: the skip buttons, the keys and the      *)
(* mouse on the progress bar, on a player that loads, plays and fails.     *)
(***************************************************************************)
ClickSkipForward ==
    /\ ui.mounted
    /\ Apply(handleSkipForward(Begin("ClickSkipForward")))

ClickSkipBackward ==
    /\ ui.mounted
    /\ Apply(handleSkipBackward(Begin("ClickSkipBackward")))

PressSeekKey ==
    /\ ui.mounted
    /\ \E key \in SeekKeys : Apply(ProgressBarKeyDown(Log(World, "PressSeekKey", 0, key), key))

MouseDownOnBar ==
    /\ ui.mounted
    /\ \E x \in {BarRect.left - 3, BarRect.left + 1, BarRect.left + BarRect.width} :
         Apply(ProgressBarHandleSeek(Log(World, "MouseDownOnBar", 0, x), MouseEvent(x)))

NextControls ==
    \/ Mount
    \/ ClickPlayPause \/ ClickNext
    \/ ClickSkipForward \/ ClickSkipBackward
    \/ PressSeekKey \/ MouseDownOnBar
    \/ EmitLoad \/ EmitLoadError \/ Tick \/ EmitEnd
    \/ DeliverLoad \/ DeliverLoadError \/ DeliverEnd
    \/ AnimationFrame

SpecControls == InitPage /\ [][NextControls]_vars

(***************************************************************************)
(* One HowlerPlayer driven directly: any caller, calling its methods in    *)
(* any order with a callbacks object that records each call ("probe").     *)
(***************************************************************************)
ProbeCallbacks == [NoClosure EXCEPT !.bag = "probe"]

UrlFtp == <<"f", "t", "p", ":", "/", "/", "h", "/", "a">>

LoadArgs == {JsString(UrlA), JsString(UrlB), JsString(UrlNoHost), JsString(UrlFtp), JsNull}

SeekArgs == {Nan, -5, TrackDur}
VolumeArgs == {Nan, -10}
RateArgs == {Nan, 300}

InitSession ==
    /\ store = StoreInit
    /\ hp = HpInit
    /\ howls = <<>>
    /\ ui = UiInit(FALSE, FALSE, <<>>)
    /\ calls = <<[op |-> "Init", h |-> 0, arg |-> 0]>>
    /\ urlIn = UrlIdle
    /\ urlOut = "idle"
    /\ statics = Constructed(StaticsInit)
    /\ wp = WpInit
    /\ page = PageInit

\* The caller is not the AudioPlayer component.
Direct == ~ui.mounted /\ ~ui.playerRef

\* load(url, callbacks); the log starts with the call and its url.
CallLoad ==
    /\ Direct
    /\ \E url \in LoadArgs, env \in EngineEnvs :
         Apply(HP_load(Log(World, "load", 0, url), url, ProbeCallbacks, env))

CallPlay == Direct /\ Apply(HP_play(Begin("play()")))

CallPause == Direct /\ Apply(HP_pause(Begin("pause()")))

CallStop == Direct /\ Apply(HP_stop(Begin("stop()")))

CallToggle == Direct /\ Apply(HP_toggle(Begin("toggle()")))

CallSeek == Direct /\ \E t \in SeekArgs : Apply(HP_seek(Begin("seek()"), t))

CallSetVolume ==
    Direct /\ \E v \in VolumeArgs : Apply(HP_setVolume(Begin("setVolume()"), v))

CallSetRate ==
    Direct /\ \E r \in RateArgs : Apply(HP_setRate(Begin("setRate()"), r))

\* destroy(); the log starts with the call and whether the player had been
\* destroyed before it (1) or not (0).
CallDestroy ==
    /\ Direct
    /\ Apply(HP_destroy(Log(World, "destroy", 0, IF hp.isDestroyed THEN 1 ELSE 0)))

NextSession ==
    \/ CallLoad \/ CallDestroy
    \/ CallPlay \/ CallPause \/ CallStop \/ CallToggle
    \/ CallSeek \/ CallSetVolume \/ CallSetRate
    \/ EmitLoad \/ EmitLoadError \/ Tick \/ EmitEnd
    \/ DeliverLoad \/ DeliverLoadError \/ DeliverEnd \/ DeliverOther

SpecSession == InitSession /\ [][NextSession]_vars

(***************************************************************************)
(* The timers of the class.  Further instances are constructed (one per    *)
(* block of the page) and the two interval callbacks fire; Howler._unload()*)
(* in the periodic callback may throw, and nothing in the callback catches *)
(* it.                                                                     *)
(***************************************************************************)
MaxPlayers == 3

\* The callback of _setupPeriodicCleanup (lines 306-311).
PeriodicCleanup(W, throws) ==
    IF throws THEN Log(HowlerUnloadThrows(W), "uncaught", 0, 0) ELSE HowlerUnloadAll(W)

\* The callback of _setupPoolMonitoring (lines 321-333): console output.
PoolMonitoring(W, env) == PoolUsage(W, env)

ConstructAnother ==
    /\ Direct /\ statics.players < MaxPlayers
    /\ Apply([Begin("new HowlerPlayer()") EXCEPT !.statics = Constructed(@)])

TimerCleanup ==
    /\ Direct /\ statics.cleanupTimers > 0
    /\ \E throws \in BOOLEAN : Apply(PeriodicCleanup(Begin("cleanupTimer"), throws))

TimerMonitoring ==
    /\ Direct /\ statics.monitorTimers > 0
    /\ \E env \in EngineEnvs : Apply(PoolMonitoring(Begin("monitorTimer"), env))

NextTimers ==
    \/ ConstructAnother \/ TimerCleanup \/ TimerMonitoring
    \/ CallLoad \/ CallPlay \/ CallDestroy
    \/ EmitLoad \/ DeliverLoad

SpecTimers == InitSession /\ [][NextTimers]_vars

(***************************************************************************)
(* The cursor of the store on its own: a playlist of zero to three tracks, *)
(* the cursor on any of its tracks, any repeat mode; nextTrack(),          *)
(* previousTrack(), setCurrentTrackIndex() and setRepeatMode() are called  *)
(* and the value returned is logged (1: true, 0: false).                   *)
(***************************************************************************)
InitCursor ==
    /\ \E pl \in RepeatPlaylists \cup {<<>>, GoodTracks}, m \in RepeatModes :
         \E i \in {0} \cup 0..(Len(pl) - 1) :
            store = [StoreInit EXCEPT !.playlist = pl, !.repeatMode = m,
                                      !.currentTrackIndex = i,
                                      !.currentTrack = At(pl, i)]
    /\ hp = HpInit
    /\ howls = <<>>
    /\ ui = UiInit(FALSE, FALSE, <<>>)
    /\ calls = <<[op |-> "Init", h |-> 0, arg |-> 0]>>
    /\ urlIn = UrlIdle
    /\ urlOut = "idle"
    /\ statics = StaticsInit
    /\ wp = WpInit
    /\ page = PageInit

StoreNextTrack ==
    /\ Direct
    /\ Apply(nextTrack(Log(World, "nextTrack()", 0, IF nextTrackRet(World) THEN 1 ELSE 0)))

StorePreviousTrack ==
    /\ Direct
    /\ Apply(previousTrack(
         Log(World, "previousTrack()", 0, IF previousTrackRet(World) THEN 1 ELSE 0)))

StoreSetIndex ==
    /\ Direct
    /\ \E i \in -1..3 : Apply(setCurrentTrackIndex(Log(World, "setCurrentTrackIndex()", 0, i), i))

NextCursor == StoreNextTrack \/ StorePreviousTrack \/ StoreSetIndex \/ SetRepeatMode

SpecCursor == InitCursor /\ [][NextCursor]_vars

(***************************************************************************)
(* Volume and rate: the setters of the player and of the store, called     *)
(* with a value below, inside and above both ranges, and with Nan.         *)
(***************************************************************************)
LevelArgs == {Nan, -10, 70, 300}

PlayerSetVolume ==
    Direct /\ \E v \in LevelArgs : Apply(HP_setVolume(Log(World, "setVolume()", 0, v), v))

PlayerSetRate ==
    Direct /\ \E r \in LevelArgs : Apply(HP_setRate(Log(World, "setRate()", 0, r), r))

StoreSetVolume ==
    Direct /\ \E v \in LevelArgs : Apply(setVolume(Log(World, "store.setVolume", 0, v), v))

StoreSetPlaybackRate ==
    Direct /\ \E r \in LevelArgs :
                Apply(setPlaybackRate(Log(World, "store.setPlaybackRate", 0, r), r))

NextLevels ==
    \/ CallLoad \/ EmitLoad
    \/ PlayerSetVolume \/ PlayerSetRate
    \/ StoreSetVolume \/ StoreSetPlaybackRate

SpecLevels == InitSession /\ [][NextLevels]_vars

(***************************************************************************)
(* isValidUrl alone: one value, put together from the parts of a URL, is   *)
(* validated on a page of either scheme.                                   *)
(***************************************************************************)
UrlLeads == {<<>>, <<" ">>}

UrlSchemes ==
    { <<>>,
      <<"h", "t", "t", "p", ":">>,
      <<"h", "t", "t", "p", "s", ":">>,
      <<"H", "T", "T", "P", "S", ":">>,
      <<"f", "t", "p", ":">>,
      <<"f", "i", "l", "e", ":">>,
      <<"j", "a", "v", "a", "s", "c", "r", "i", "p", "t", ":">> }

UrlSeps == {<<>>, <<"/">>, <<"/", "/">>}

UrlHosts ==
    { <<>>, <<"h">>, <<"h", ":", "8", "0">>, <<"h", ":", "9", "9", "9", "9", "9">>,
      <<"h", " ", "h">> }

UrlPaths == {<<>>, <<"/", "a">>}

UrlInputs ==
    { JsString(l \o sc \o sp \o ho \o pa) :
        l \in UrlLeads, sc \in UrlSchemes, sp \in UrlSeps, ho \in UrlHosts, pa \in UrlPaths }
    \cup {JsNull, JsUndefined, JsNumber, JsObject}

InitUrl ==
    /\ store = StoreInit
    /\ hp = HpInit
    /\ howls = <<>>
    /\ ui = UiInit(FALSE, FALSE, <<>>)
    /\ calls = <<[op |-> "Init", h |-> 0, arg |-> 0]>>
    /\ urlIn \in [value : UrlInputs, origin : {Http, Https}]
    /\ urlOut = "idle"
    /\ statics = Constructed(StaticsInit)
    /\ wp = WpInit
    /\ page = PageInit

Validate ==
    /\ urlOut = "idle"
    /\ urlOut' = IF isValidUrl(urlIn.value, urlIn.origin) THEN "true" ELSE "false"
    /\ UNCHANGED <<store, hp, howls, ui, calls, urlIn, statics, wp, page>>

NextUrl == Validate

SpecUrl == InitUrl /\ [][NextUrl]_vars

(***************************************************************************)
(* The rate limiter under requests (SpecRate)                              *)
(***************************************************************************)
MaxViolations == 6
MaxAllowed == 61

InitRate ==
    /\ store = StoreInit
    /\ hp = HpInit
    /\ howls = <<>>
    /\ ui = UiInit(FALSE, FALSE, <<>>)
    /\ calls = <<[op |-> "Init", h |-> 0, arg |-> 0]>>
    /\ urlIn = UrlIdle
    /\ urlOut = "idle"
    /\ statics = StaticsInit
    /\ wp = WpInit
    /\ page = PageInit

ApplyWp(T) ==
    /\ wp' = T
    /\ UNCHANGED <<store, hp, howls, ui, calls, urlIn, urlOut, statics, page>>

\* The whole of fluxwave_check_rate_limit for a request that no other
\* request interleaves with.
CheckWhole(T, w, key, limit) ==
    IF fluxwave_is_whitelisted_ip(key)
    THEN CheckRead(T, w, key, limit)
    ELSE CheckDecide(CheckRead(T, w, key, limit), w)

\* A request for one of the routes is handled from start to end.
RequestServed ==
    \E key \in RateKeys, limit \in RouteLimits :
        /\ wp.allowed[key] <= MaxAllowed
        /\ CheckWhole(wp, FastWorker, key, limit).violations[key] <= MaxViolations
        /\ ApplyWp(CheckWhole(wp, FastWorker, key, limit))

\* A request arrives at the other worker, which is slow: other requests are
\* handled between its reads and its write.
RequestArrives ==
    \E key \in RateKeys, limit \in RouteLimits :
        /\ wp.workers[SlowWorker].pc = "idle"
        /\ wp.allowed[key] <= MaxAllowed
        /\ ApplyWp(CheckRead(wp, SlowWorker, key, limit))

RequestDecided ==
    /\ wp.workers[SlowWorker].pc = "read"
    /\ CheckDecide(wp, SlowWorker).violations[wp.workers[SlowWorker].key] <= MaxViolations
    /\ ApplyWp(CheckDecide(wp, SlowWorker))

\* MINUTE_IN_SECONDS after the counter was last written it ceases to exist:
\* the window of the key is over.
RequestsExpire ==
    \E key \in RateKeys :
        /\ wp.requests[key] # NoTransient
        /\ ApplyWp([wp EXCEPT !.requests[key] = NoTransient, !.allowed[key] = 0])

\* HOUR_IN_SECONDS after the last violation the violation count is gone.
ViolationsExpire ==
    \E key \in RateKeys :
        /\ wp.violations[key] # NoTransient
        /\ ApplyWp([wp EXCEPT !.violations[key] = NoTransient])

NextRate ==
    \/ RequestServed
    \/ RequestArrives
    \/ RequestDecided
    \/ RequestsExpire
    \/ ViolationsExpire

SpecRate == InitRate /\ [][NextRate]_vars

(***************************************************************************)
(* The permission callback under requests (SpecBatch)                      *)
(***************************************************************************)
ApiRequest ==
    \E ip \in RateKeys, len \in ContentLengths, later \in LaterChecks :
        /\ Direct
        /\ ApplyWp(fluxwave_validate_api_request(wp, ip, len, later))

\* MINUTE_IN_SECONDS after the last admitted request the transient is gone.
BatchExpires ==
    \E ip \in RateKeys :
        /\ wp.batch[ip] # NoTransient
        /\ ApplyWp([wp EXCEPT !.batch[ip] = NoTransient, !.admitted[ip] = 0,
                              !.batchLast = [NoValidation EXCEPT !.op = "expire"]])

NextBatch ==
    \/ ApiRequest
    \/ BatchExpires

SpecBatch == InitRate /\ [][NextBatch]_vars

(***************************************************************************)
(* The component with its engine callbacks scheduled (SpecLive)            *)
(*                                                                         *)
(* The engine runs its listeners from zero-delay timers: a listener that   *)
(* is queued is run unless its Howl is unloaded first.                     *)
(***************************************************************************)
NextLive ==
    \/ Mount \/ Unmount
    \/ ClickNext \/ ClickTryAgain
    \/ EmitLoad \/ EmitLoadError
    \/ DeliverLoad \/ DeliverLoadError

SpecLive ==
    /\ InitPage /\ [][NextLive]_vars
    /\ WF_vars(DeliverLoad)
    /\ WF_vars(DeliverLoadError)

(***************************************************************************)
(* The store's playlist, cursor and shuffle (SpecShuffle)                  *)
(***************************************************************************)
\* Non-empty playlists of tracks with distinct ids.
ShufflePlaylists ==
    {GoodTracks, TrackPair, <<Track(3, UrlC), Track(1, UrlA)>>, <<Track(2, UrlB)>>}

\* A playlist has been set and its current track selected.
InitShuffle ==
    /\ \E pl \in ShufflePlaylists, m \in RepeatModes :
         \E i \in 0..(Len(pl) - 1) :
            store = [StoreInit EXCEPT !.playlist = pl, !.originalPlaylist = pl,
                                      !.repeatMode = m,
                                      !.currentTrackIndex = i,
                                      !.currentTrack = At(pl, i)]
    /\ hp = HpInit
    /\ howls = <<>>
    /\ ui = UiInit(FALSE, FALSE, <<>>)
    /\ calls = <<[op |-> "Init", h |-> 0, arg |-> 0]>>
    /\ urlIn = UrlIdle
    /\ urlOut = "idle"
    /\ statics = StaticsInit
    /\ wp = WpInit
    /\ page = PageInit

StoreSetPlaylist ==
    /\ Direct
    /\ \E pl \in ShufflePlaylists : Apply(setPlaylist(Begin("setPlaylist()"), pl))

StoreToggleShuffle ==
    /\ Direct
    /\ \E draws \in ShuffleDraws : Apply(toggleShuffle(Begin("toggleShuffle()"), draws))

NextShuffle ==
    \/ StoreSetPlaylist
    \/ StoreToggleShuffle
    \/ StoreNextTrack
    \/ StorePreviousTrack
    \/ StoreSetIndex

SpecShuffle == InitShuffle /\ [][NextShuffle]_vars

(***************************************************************************)
(* The speed button (SpecSpeed)                                            *)
(*                                                                         *)
(* TransportControls is given the store's playbackRate and, on a click,    *)
(* calls onPlaybackRateChange with the option after it (cycleSpeed).       *)
(***************************************************************************)
speedOptions == <<50, 75, 100, 125, 150, 200>>

\* speedOptions[(indexOf(playbackRate) + 1) % length]; indexOf is -1 for a
\* rate that is no option.
cycleSpeed(playbackRate) ==
    LET found == {i \in 1..Len(speedOptions) : speedOptions[i] = playbackRate}
        currentIndex == IF found = {} THEN -1 ELSE (CHOOSE i \in found : TRUE) - 1
    IN  speedOptions[((currentIndex + 1) % Len(speedOptions)) + 1]

\* The handler of the copy of the component that follows view.js in its
\* file (lines 471-477): it also writes the chosen rate to the store.
handlePlaybackRateChangeStored(W, rate) ==
    setPlaybackRate(IF W.ui.playerRef THEN HP_setRate(W, rate) ELSE W, rate)

\* handlePlaybackRateChange (lines 323-327): the player only.
handlePlaybackRateChange(W, rate) ==
    IF W.ui.playerRef THEN HP_setRate(W, rate) ELSE W

ClickSpeed ==
    /\ ui.mounted
    /\ LET rate == cycleSpeed(store.playbackRate)
       IN  Apply(handlePlaybackRateChange(
                   [Log(World, "ClickSpeed", 0, rate) EXCEPT !.ui.userRate = rate], rate))

NextSpeed ==
    \/ Mount
    \/ ClickPlayPause \/ ClickNext \/ ClickSpeed
    \/ EmitLoad \/ DeliverLoad

SpecSpeed == InitPage /\ [][NextSpeed]_vars

(***************************************************************************)
(* The previous button with playback positions (SpecPrevious)              *)
(*                                                                         *)
(* The position is moved with the progress bar, which moves the decoder    *)
(* and the stored position together.                                       *)
(***************************************************************************)
NextPrevious ==
    \/ Mount
    \/ ClickPlayPause \/ ClickNext \/ ClickPrevious
    \/ MouseDownOnBar
    \/ EmitLoad
    \/ DeliverLoad
    \/ AnimationFrame

SpecPrevious == InitPage /\ [][NextPrevious]_vars

(***************************************************************************)
(* The page script run and re-run (SpecRoots)                              *)
(***************************************************************************)
NumBlocks == 2
MaxRoots == 4

ApplyPage(P) ==
    /\ page' = P
    /\ UNCHANGED <<store, hp, howls, ui, calls, urlIn, urlOut, statics, wp>>

\* How each root created so far answers unmount().
Unmounts == [1..Len(page.roots) -> UnmountOutcomes]

RunInitPlayers ==
    /\ Len(page.roots) + NumBlocks <= MaxRoots
    /\ \E cfgs \in [1..NumBlocks -> BlockConfigs], how \in Unmounts :
         ApplyPage(initPlayers(page, cfgs, how))

\* beforeunload or popstate.
RunCleanupPlayers ==
    /\ Direct
    /\ \E how \in Unmounts : ApplyPage(cleanupPlayers(page, how))

NextRoots ==
    \/ RunInitPlayers
    \/ RunCleanupPlayers

SpecRoots == InitRate /\ [][NextRoots]_vars

(***************************************************************************)
(* Properties of one HowlerPlayer (SpecSession)                            *)
(***************************************************************************)
LiveHowls == {h \in 1..Len(howls) : howls[h].st # "unloaded"}

Has(cs, op) == \E i \in 1..Len(cs) : cs[i].op = op

\* In the log cs, Howl h was stopped and then unloaded before entry i.
ReleasedBefore(cs, h, i) ==
    \E j \in 1..i, k \in 1..i :
      /\ j < k /\ k < i
      /\ cs[j].op = "stop" /\ cs[j].h = h
      /\ cs[k].op = "unload" /\ cs[k].h = h

CallbackNames == {"onLoad", "onError", "onEnd", "onPlay", "onPause", "onStop", "onSeek"}

DeliverActs == {"DeliverLoad", "DeliverLoadError", "DeliverEnd", "DeliverOther"}

QuietCalls == {"play()", "pause()", "stop()", "toggle()", "seek()", "setVolume()", "setRate()"}

HpDestroyed == [sound |-> NoSound, isDestroyed |-> TRUE, loadPromise |-> FALSE]

C2_StaleCallbackImmunity ==
    [][ \A i \in 1..Len(calls') :
          (/\ calls'[i].op \in {"onLoad", "onError"}
           /\ ~hp.isDestroyed
           /\ hp.sound # NoSound)
            => calls'[i].h = hp.sound ]_vars

\* C4: once the player is destroyed, the delivery of any engine event calls
\* no caller-supplied callback, settles no promise and leaves the player's
\* fields as they are.
C4_NoCallbackAfterDestroy ==
    [][ (hp.isDestroyed /\ calls'[1].op \in DeliverActs)
          => /\ \A i \in 1..Len(calls') :
                  calls'[i].op \notin CallbackNames \cup {"resolve", "reject"}
             /\ hp' = hp ]_vars

\* C5: once destroyed, the player stays destroyed and unbound and no Howl is
\* ever created; play, pause, stop, toggle, seek, setVolume and setRate make
\* no engine call and change nothing, and load() makes no engine call and
\* rejects its promise.
C5_DestroyedStaysInert ==
    [][ hp.isDestroyed =>
          /\ hp'.isDestroyed
          /\ hp'.sound = NoSound
          /\ Len(howls') = Len(howls)
          /\ calls'[1].op \in QuietCalls
               => Len(calls') = 1 /\ howls' = howls /\ hp' = hp
          /\ calls'[1].op = "load"
               => Len(calls') = 2 /\ calls'[2].op = "reject" /\ howls' = howls ]_vars

\* C5 witness: load() of a valid URL on a destroyed player that had created
\* a Howl; the promise was rejected.
C5_Witness ==
    /\ hp.isDestroyed
    /\ Len(howls) > 0
    /\ calls[1].op = "load"
    /\ isValidUrl(calls[1].arg, ui.origin)
    /\ calls[2].op = "reject"

\* C6: every destroy() leaves the player unbound, destroyed and without a
\* load promise, with no live Howl; a destroy() of a player that is already
\* destroyed changes no Howl and stops or unloads nothing (its only engine
\* call is the reclamation pass).
C6_DestroyIdempotent ==
    [][ calls'[1].op = "destroy" =>
          /\ hp' = HpDestroyed
          /\ LiveHowls' = {}
          /\ hp.isDestroyed
               => /\ howls' = howls
                  /\ \A i \in 2..Len(calls') : calls'[i].op = "reclaim" ]_vars

\* C6 witness: destroy() was called on a player already destroyed, which
\* had created a Howl.
C6_Witness ==
    /\ calls[1].op = "destroy"
    /\ calls[1].arg = 1
    /\ Len(howls) > 0
    /\ hp = HpDestroyed

\* C7: a load() whose URL fails isValidUrl only rejects: it makes no engine
\* call (no stop, unload, reclamation or creation), every Howl is as before
\* and the player is bound as before.
C7_InvalidUrlTouchesNothing ==
    [][ (calls'[1].op = "load" /\ ~isValidUrl(calls'[1].arg, ui.origin))
          => /\ Len(calls') = 2
             /\ calls'[2].op = "reject"
             /\ howls' = howls
             /\ hp'.sound = hp.sound ]_vars

\* C7 witness: load() of an invalid URL on a live player whose bound Howl is
\* still playing after the call.
C7_Witness ==
    /\ calls[1].op = "load"
    /\ ~isValidUrl(calls[1].arg, ui.origin)
    /\ ~hp.isDestroyed
    /\ hp.sound # NoSound
    /\ howls[hp.sound].playing
    /\ calls[2].op = "reject"

(***************************************************************************)
(* Properties of isValidUrl (SpecUrl)                                      *)
(***************************************************************************)
\* The text of the validated value without its surrounding spaces.
UrlText == Trim(urlIn.value.text)

\* The scheme the text spells out itself, lower-cased (<<>>: none).
ExplicitScheme == LowerAll(SubSeq(UrlText, 1, SchemeEnd(UrlText) - 1))

\* C8: isValidUrl answers true exactly for a non-empty string that, resolved
\* against the page origin, parses as a URL of scheme http or https.  So it
\* answers false for null, undefined, a number, an object and the empty
\* string, for text new URL() rejects, and for text that spells out any
\* other scheme (ftp:, file:, javascript:); and true for a relative path,
\* which takes the scheme of the page.  It always answers.
C8_ValidUrl ==
    urlOut # "idle" =>
      /\ urlOut \in {"true", "false"}
      /\ urlOut = "true" <=>
            /\ urlIn.value.type = "string"
            /\ urlIn.value.text # <<>>
            /\ URLParse(urlIn.value.text, urlIn.origin) \in {Http, Https}
      /\ urlIn.value.type # "string" => urlOut = "false"
      /\ urlIn.value.text = <<>> => urlOut = "false"
      /\ (urlIn.value.type = "string" /\ ExplicitScheme \notin {<<>>, Http, Https})
            => urlOut = "false"
      /\ (/\ urlIn.value.text # <<>>
          /\ SchemeEnd(UrlText) = 0
          /\ ~StartsWithTwoSlashes(UrlText))
            => urlOut = "true"

\* C8 witness: a relative path was validated and accepted.
C8_Witness ==
    /\ urlOut = "true"
    /\ urlIn.value = JsString(<<"h", "/", "a">>)

(***************************************************************************)
(* Properties of the block (Spec, SpecRepeat)                              *)
(***************************************************************************)
\* No load is in flight and no engine event waits for its listener.
EngineQuiet ==
    \A h \in 1..Len(howls) :
      /\ howls[h].q = "none"
      /\ ~(howls[h].st = "loading" /\ howls[h].outcome = "none")

\* The track under the cursor: the one the last change of the index asked
\* the load effect for.
CursorTrack == At(store.playlist, store.currentTrackIndex)

\* C3: once no load is in flight and every engine event has been delivered,
\* the Howl the mounted player is bound to is the one of the track requested
\* last (the track under the cursor, when its URL is valid), also when that
\* request came while an earlier load was in flight.
C3_NewLoadSupersedes ==
    (/\ ui.mounted
     /\ hp.sound # NoSound
     /\ EngineQuiet
     /\ isValidUrl(CursorTrack.url, ui.origin))
      => howls[hp.sound].src = CursorTrack.url.text

\* C9: when the end of the bound Howl's track is delivered while the repeat
\* mode is 'none' and the cursor is on the last track, the playing flag is
\* cleared, the cursor stays, and nothing is played or loaded.
C9_EndOfPlaylistStops ==
    [][ (/\ calls'[1].op = "DeliverEnd"
         /\ calls'[1].h = hp.sound
         /\ ui.mounted
         /\ store.repeatMode = "none"
         /\ store.currentTrackIndex = Len(store.playlist) - 1)
          => /\ ~store'.isPlaying
             /\ store'.currentTrackIndex = store.currentTrackIndex
             /\ ~Has(calls', "play")
             /\ ~Has(calls', "create") ]_vars

\* C10: when the end of the bound Howl's track is delivered while the repeat
\* mode is 'one', the Howl is sought to 0 and then played, the cursor and
\* the current track stay, and no load is started.
C10_RepeatOneReplays ==
    [][ (/\ calls'[1].op = "DeliverEnd"
         /\ calls'[1].h = hp.sound
         /\ ui.mounted
         /\ store.repeatMode = "one")
          => /\ \E i \in 1..Len(calls'), j \in 1..Len(calls') :
                  /\ i < j
                  /\ calls'[i] = [op |-> "seek", h |-> hp.sound, arg |-> 0]
                  /\ calls'[j] = [op |-> "play", h |-> hp.sound, arg |-> 0]
             /\ store'.currentTrackIndex = store.currentTrackIndex
             /\ store'.currentTrack = store.currentTrack
             /\ hp'.sound = hp.sound
             /\ ~Has(calls', "create") ]_vars

\* The log cs holds a call of player.load(): it ends by creating a Howl or by
\* rejecting.
LoadStarted(cs) == Has(cs, "create") \/ Has(cs, "reject")

\* C11: when the end of the bound Howl's track is delivered while the repeat
\* mode is not 'one' and nextTrack() reports a next track (the following
\* one, or the first one under repeat 'all'), a load is started in the same
\* task, whatever the length of the playlist; this is asked only of an end
\* callback that was created under the repeat mode still in force.
C11_NextTrackLoads ==
    [][ (/\ calls'[1].op = "DeliverEnd"
         /\ calls'[1].h = hp.sound
         /\ ui.mounted
         /\ ~store.isLoading
         /\ store.repeatMode # "one"
         /\ howls[hp.sound].cl.repeatMode = store.repeatMode
         /\ nextTrackRet(World))
          => LoadStarted(calls') ]_vars

\* C12: with the loop prop set, when the end of the bound Howl's track is
\* delivered while the cursor is on the last track and the bound Howl is
\* that track's, the cursor moves to the first track and a load is started
\* instead of the playing flag being cleared.
C12_LoopPlaylistContinues ==
    [][ (/\ calls'[1].op = "DeliverEnd"
         /\ calls'[1].h = hp.sound
         /\ ui.mounted
         /\ ui.loop
         /\ ~store.isLoading
         /\ store.isPlaying
         /\ store.currentTrackIndex = Len(store.playlist) - 1
         /\ howls[hp.sound].src = CursorTrack.url.text)
          => /\ store'.isPlaying
             /\ store'.currentTrackIndex = 0
             /\ LoadStarted(calls') \/ Has(calls', "play") ]_vars

\* Some Howl of this player plays, or will as soon as it has loaded.
EnginePlaying == \E h \in 1..Len(howls) : howls[h].playing \/ howls[h].queuedPlay

\* C13: with autoplay off, as long as the user has not asked this player to
\* play, none of its Howls plays or is asked to play.
C13_NoPlaybackWithoutCommand ==
    (~ui.autoplay /\ ~ui.userPlay) => ~EnginePlaying

\* The listeners of the bound Howl h run for the mounted component.
CurrentLoadDelivered(act, h) ==
    /\ act = "DeliverLoad"
    /\ h = hp.sound
    /\ ui.mounted /\ ui.playerRef
    /\ ~hp.isDestroyed

\* C14: when the load of the bound Howl succeeds, the duration is stored, the
\* loading flag is cleared, and the Howl plays (and the store says Playing)
\* exactly when autoplay is set or the store said Playing at that moment.
C14_LoadSuccessOutcome ==
    [][ CurrentLoadDelivered(calls'[1].op, calls'[1].h)
          => /\ store'.duration = TrackDur
             /\ ~store'.isLoading
             /\ store'.isPlaying = (ui.autoplay \/ store.isPlaying)
             /\ howls'[hp.sound].playing = (ui.autoplay \/ store.isPlaying) ]_vars

\* C15: with autoplay off, a load that began while the store said Playing
\* and during which the user paused ends with the Howl not playing and the
\* store not Playing.
C15_PauseDuringLoadWins ==
    [][ (/\ CurrentLoadDelivered(calls'[1].op, calls'[1].h)
         /\ ~ui.autoplay
         /\ store.isLoading
         /\ howls[hp.sound].cl.isPlaying
         /\ ~store.isPlaying)
          => /\ ~store'.isPlaying
             /\ ~howls'[hp.sound].playing ]_vars

\* C16: when the engine reports a load error for the bound Howl, the loading
\* flag is cleared, the duration is 0, and the error shown is the message
\* derived from the engine's error.
C16_LoadErrorClassified ==
    [][ (/\ calls'[1].op = "DeliverLoadError"
         /\ calls'[1].h = hp.sound
         /\ ui.mounted)
          => /\ ~store'.isLoading
             /\ store'.duration = 0
             /\ ui'.error = ErrorMessage(calls'[1].arg) ]_vars

Creates(cs) == {i \in 1..Len(cs) : cs[i].op = "create"}

\* The step is a press of "Try Again" in the error overlay.
Retried(act) == act = "ClickTryAgain"

C18_NoDecoderNoChange ==
    [][ (/\ calls'[1].op = "ClickPlayPause"
         /\ hp.sound = NoSound)
          => /\ store' = store
             /\ hp' = hp
             /\ howls' = howls
             /\ ui'.error = ui.error
             /\ ~store'.isPlaying ]_vars

\* C19: a press of the play/pause button after the load of the bound Howl
\* failed in the engine does not make the store say Playing, starts nothing
\* and leaves the error shown.
C19_NoPlayAfterLoadError ==
    [][ (/\ calls'[1].op = "ClickPlayPause"
         /\ hp.sound # NoSound
         /\ howls[hp.sound].outcome = "loaderror"
         /\ howls[hp.sound].q = "none"
         /\ ui.error # NoError)
          => /\ ~store'.isPlaying
             /\ ~howls'[hp.sound].playing
             /\ ui'.error = ui.error ]_vars

\* C20: a seek to x on a loaded track changes no position when x is not a
\* finite number; otherwise the position given to the engine and the
\* position stored as currentTime are both max(0, min(x, duration)).
C20_SeekClamped ==
    [][ (/\ calls'[1].op = "SeekTo"
         /\ hp.sound # NoSound
         /\ howls[hp.sound].st = "loaded")
          => LET x == calls'[1].arg
                 want == Max(0, Min(x, HP_getDuration(World)))
             IN  IF ~IsFiniteNumber(x)
                 THEN /\ store'.currentTime = store.currentTime
                      /\ howls' = howls
                 ELSE /\ \E i \in 1..Len(calls') :
                           calls'[i].op = "seek" /\ calls'[i].arg = want
                      /\ store'.currentTime = want ]_vars

\* C21: setVolume(v) of the player with a bound Howl gives the Howl the
\* volume max(0, min(1, v)) and setRate(r) the rate max(0.5, min(2, r)); the
\* setters of the store store the same values; with Nan each of the four
\* leaves the previous value.
C21_LevelsClamped ==
    [][ LET act == calls'[1].op
            x == calls'[1].arg
        IN  /\ (act = "setVolume()" /\ hp.sound # NoSound) =>
                  howls'[hp.sound].vol =
                     IF x = Nan THEN howls[hp.sound].vol ELSE Max(0, Min(100, x))
            /\ (act = "setRate()" /\ hp.sound # NoSound) =>
                  howls'[hp.sound].rate =
                     IF x = Nan THEN howls[hp.sound].rate ELSE Max(50, Min(200, x))
            /\ act = "store.setVolume" =>
                  store'.volume = IF x = Nan THEN store.volume ELSE Max(0, Min(100, x))
            /\ act = "store.setPlaybackRate" =>
                  store'.playbackRate =
                     IF x = Nan THEN store.playbackRate ELSE Max(50, Min(200, x)) ]_vars

\* The entries of the log cs with operation op.
Entries(cs, op) == {i \in 1..Len(cs) : cs[i].op = op}

AtMark(usage) == usage * 10 >= Html5PoolSize * 9

\* C22: in a load() that reads the pool usage, a usage at or above 90% of
\* the pool size is followed by a reclamation pass, which comes before the
\* creation of the Howl; a usage below the mark, or a load() that reads no
\* usage, runs no reclamation pass.
C22_ReclaimAtHighWater ==
    [][ calls'[1].op = "load" =>
          LET cs == calls'
          IN  /\ \A j \in Entries(cs, "poolUsage") :
                    IF AtMark(cs[j].arg)
                    THEN /\ \E k \in Entries(cs, "reclaim") : k > j
                         /\ \A i \in Entries(cs, "create") :
                              \E k \in Entries(cs, "reclaim") : j < k /\ k < i
                    ELSE Entries(cs, "reclaim") = {}
              /\ Entries(cs, "poolUsage") = {} => Entries(cs, "reclaim") = {} ]_vars

\* A load() at the mark that reclaimed and then created its Howl.
C22_Witness ==
    /\ calls[1].op = "load"
    /\ \E j \in Entries(calls, "poolUsage") : calls[j].arg * 10 = Html5PoolSize * 9
    /\ Has(calls, "reclaim") /\ Has(calls, "create")

\* Entry i of the log cs belongs to stage n of a load(): release (1), pool
\* check (2), reclamation (3), creation (4).
Stage(e) ==
    IF e.op \in {"stop", "unload"} THEN 1
    ELSE IF e.op = "poolUsage" THEN 2
    ELSE IF e.op = "reclaim" THEN 3
    ELSE IF e.op = "create" THEN 4
    ELSE 0

C24_OneTimerEach ==
    /\ statics.cleanupTimers <= 1
    /\ statics.monitorTimers <= 1
    /\ statics.players > 0 => statics.cleanupTimers = 1 /\ statics.monitorTimers = 1

\* Three instances have been constructed.
C24_Witness ==
    /\ statics.players = MaxPlayers
    /\ calls[1].op = "new HowlerPlayer()"
    /\ statics.cleanupTimers = 1

\* C25: an engine error thrown in a reclamation pass stays inside the pass:
\* no step lets it escape a timer callback, and a load() whose pass threw is
\* not rejected, goes on to create its Howl, and leaves the store as it was.
C25_ReclaimErrorContained ==
    [][ /\ ~Has(calls', "uncaught")
        /\ \A k \in Entries(calls', "reclaim") :
              (calls'[k].arg = 1 /\ calls'[1].op = "load")
                 => /\ ~Has(calls', "reject")
                    /\ Has(calls', "create")
                    /\ store' = store ]_vars

\* The track after the cursor in play order: the following one, or the
\* first one when the cursor is on the last track.
FollowingIndex == IF store.currentTrackIndex + 1 < Len(store.playlist)
                  THEN store.currentTrackIndex + 1 ELSE 0

\* C26: nextTrack() returns true exactly when the cursor moved to the next
\* track (index and current track), and when it returns false the index and
\* the current track are unchanged.
C26_NextTrackResult ==
    [][ calls'[1].op = "nextTrack()" =>
          LET moved == /\ store'.currentTrackIndex # store.currentTrackIndex
                       /\ store'.currentTrackIndex = FollowingIndex
                       /\ store'.currentTrack = At(store.playlist, FollowingIndex)
          IN  /\ (calls'[1].arg = 1) <=> moved
              /\ calls'[1].arg = 0 => store' = store ]_vars

\* C27: previousTrack() at an index above 0 moves the cursor back by one
\* track and returns true; at index 0 it returns false and changes neither
\* the index nor the current track; in every repeat mode.
C27_PreviousTrackResult ==
    [][ calls'[1].op = "previousTrack()" =>
          IF store.currentTrackIndex > 0
          THEN /\ calls'[1].arg = 1
               /\ store'.currentTrackIndex = store.currentTrackIndex - 1
               /\ store'.currentTrack = At(store.playlist, store.currentTrackIndex - 1)
          ELSE /\ calls'[1].arg = 0
               /\ store' = store ]_vars

\* previousTrack() was called at the first track of a longer playlist under
\* repeat "all".
C27_Witness ==
    /\ calls[1].op = "previousTrack()" /\ calls[1].arg = 0
    /\ store.repeatMode = "all"
    /\ Len(store.playlist) > 1

\* C28: with a duration known, a press of ArrowRight, ArrowLeft, Home or End
\* on the progress bar seeks the bound Howl to min(duration, currentTime +
\* 5), max(0, currentTime - 5), 0 or the duration, and that position is
\* stored as currentTime.
C28_SeekKeys ==
    [][ (/\ calls'[1].op = "PressSeekKey"
         /\ calls'[1].arg \in {"ArrowRight", "ArrowLeft", "Home", "End"}
         /\ store.duration > 0
         /\ hp.sound # NoSound)
          => LET key == calls'[1].arg
                 want == IF key = "ArrowRight" THEN Min(store.duration, store.currentTime + 5)
                         ELSE IF key = "ArrowLeft" THEN Max(0, store.currentTime - 5)
                         ELSE IF key = "Home" THEN 0
                         ELSE store.duration
             IN  /\ \E i \in Entries(calls', "seek") : calls'[i].arg = want
                 /\ store'.currentTime = want ]_vars

\* C29: a skip forward stores min(currentTime + 10, duration) as the
\* position, a skip backward max(currentTime - 10, 0), and after either,
\* pressed while no load is in flight, the stored position lies between 0
\* and the stored duration.
C29_SkipWithinTrack ==
    [][ /\ calls'[1].op = "ClickSkipForward" =>
              store'.currentTime = Min(store.currentTime + SkipStep, store.duration)
        /\ calls'[1].op = "ClickSkipBackward" =>
              store'.currentTime = Max(store.currentTime - SkipStep, 0)
        /\ (calls'[1].op \in {"ClickSkipForward", "ClickSkipBackward"} /\ ~store.isLoading) =>
              /\ 0 <= store'.currentTime
              /\ store'.currentTime <= store'.duration ]_vars

\* C30: fluxwave_check_rate_limit allows a request exactly when the key is
\* whitelisted or fewer requests than the adaptive limit have been counted
\* for the key in the current window (none counted: the first request of a
\* window, always allowed); and a key that is not whitelisted is never
\* allowed more than `limit` requests within one window.
C30_RateLimit ==
    wp.last.op = "check" =>
      /\ wp.last.allowed <=>
            \/ fluxwave_is_whitelisted_ip(wp.last.key)
            \/ wp.last.requests = NoTransient
            \/ wp.last.requests < wp.last.adaptive
      /\ (wp.last.allowed /\ ~fluxwave_is_whitelisted_ip(wp.last.key)) =>
            wp.allowed[wp.last.key] <= wp.last.limit

\* C31: fluxwave_validate_api_request admits at most 10 requests per minute
\* from one client IP; every further request of the window is rejected with
\* batch_limit_exceeded and leaves the counter as it was.
C31_BatchLimit ==
    [][ wp'.batchLast.op = "validate" =>
          /\ wp'.admitted[wp'.batchLast.ip] <= BatchLimit
          /\ (wp.admitted[wp'.batchLast.ip] >= BatchLimit /\ wp'.batchLast.result # "request_too_large")
                => wp'.batchLast.result = "batch_limit_exceeded"
          /\ wp'.batchLast.result = "batch_limit_exceeded" => wp'.batch = wp.batch ]_vars

\* C32: whenever the component is mounted, no load is in flight and no error
\* is shown, the sound bound to the player was created from the url of the
\* store's current track, playlist[currentTrackIndex].url.
C32_DecoderIsCurrentTrack ==
    (/\ ui.mounted
     /\ ~store.isLoading
     /\ ui.error = NoError
     /\ hp.sound # NoSound
     /\ At(store.playlist, store.currentTrackIndex) # NullTrack)
        => howls[hp.sound].src = At(store.playlist, store.currentTrackIndex).url.text

\* C33: two players on one page are independent: a command given to the other
\* player changes neither the playback state this player shows (current
\* track, playing flag, loading flag, duration) nor releases its decoder.
C33_InstancesIndependent ==
    [][ calls'[1].op \in {"PeerClickPlayPause", "PeerClickNext"} =>
          /\ store'.currentTrack = store.currentTrack
          /\ store'.isPlaying = store.isPlaying
          /\ store'.isLoading = store.isLoading
          /\ store'.duration = store.duration
          /\ hp'.sound = hp.sound ]_vars

\* The engine has fired onload or onloaderror for the load in flight of a
\* player that is not destroyed.
LoadEventFired ==
    /\ hp.sound # NoSound
    /\ ~hp.isDestroyed
    /\ howls[hp.sound].q \in {"load", "loaderror"}

\* C34: once the engine has fired onload or onloaderror for the load of a
\* player that is not destroyed, the player leaves Loading: the promise of
\* the load is resolved on onload and rejected on onloaderror, and in both
\* cases the loading flag is cleared.
C34_LoadLeavesLoading ==
    /\ [][ (LoadEventFired /\ calls'[1].op \in {"DeliverLoad", "DeliverLoadError"}) =>
             /\ ~store'.isLoading
             /\ calls'[1].op = "DeliverLoad" =>
                   Entries(calls', "resolve") # {} /\ Entries(calls', "reject") = {}
             /\ calls'[1].op = "DeliverLoadError" =>
                   Entries(calls', "reject") # {} /\ Entries(calls', "resolve") = {} ]_vars
    /\ LoadEventFired ~> (~store.isLoading \/ hp.isDestroyed)

C34_Witness ==
    /\ calls[1].op = "DeliverLoadError"
    /\ Entries(calls, "reject") # {}
    /\ ~store.isLoading
    /\ ~hp.isDestroyed

\* C35: with a non-empty playlist of tracks with distinct ids whose current
\* track was selected through setCurrentTrackIndex, every sequence of
\* setCurrentTrackIndex, nextTrack, previousTrack, toggleShuffle and
\* setPlaylist keeps the cursor inside the playlist and currentTrack equal
\* to playlist[currentTrackIndex].
C35_CursorOnCurrentTrack ==
    /\ 0 <= store.currentTrackIndex
    /\ store.currentTrackIndex < Len(store.playlist)
    /\ store.currentTrack = At(store.playlist, store.currentTrackIndex)

IsPermutation(a, b) ==
    /\ Len(a) = Len(b)
    /\ \A k \in 1..Len(a) :
         Cardinality({m \in 1..Len(a) : a[m] = a[k]}) = Cardinality({m \in 1..Len(b) : b[m] = a[k]})

C37_RatePersists ==
    [][ (/\ calls'[1].op = "DeliverLoad"
         /\ calls'[1].h = hp.sound
         /\ ui.mounted /\ ui.playerRef
         /\ ui.userRate # 0
         /\ howls[hp.sound].cl.userRate = ui.userRate) =>
            /\ howls'[hp'.sound].rate = ui.userRate
            /\ store'.playbackRate = ui.userRate ]_vars

\* The bound Howl has loaded and the component shows neither a load in
\* flight nor an error.
TrackReady ==
    /\ ui.mounted /\ ui.playerRef
    /\ hp.sound # NoSound
    /\ howls[hp.sound].st = "loaded"
    /\ ~store.isLoading
    /\ ui.error = NoError

\* An animation frame is due that will copy the position to the store.
FramePending ==
    ui.mounted /\ store.isPlaying /\ store.currentTime # HP_getCurrentTime(World)

\* C38: the previous-track command restarts the current track (seek to 0,
\* cursor unchanged) when more than 3 seconds of it have been played, and
\* otherwise retreats the cursor by one track (when there is one before
\* it); it never does both.  The command is given while no update of the
\* displayed position is due.
C38_PreviousRestartsOrRetreats ==
    [][ (calls'[1].op = "ClickPrevious" /\ TrackReady /\ ~FramePending) =>
          LET played == howls[hp.sound].pos
              seeks == {i \in Entries(calls', "seek") : calls'[i].arg = 0}
          IN  /\ played > RestartThreshold =>
                    /\ seeks # {}
                    /\ store'.currentTrackIndex = store.currentTrackIndex
              /\ (played <= RestartThreshold /\ store.currentTrackIndex > 0) =>
                    /\ seeks = {}
                    /\ store'.currentTrackIndex = store.currentTrackIndex - 1
              /\ ~(seeks # {} /\ store'.currentTrackIndex # store.currentTrackIndex) ]_vars

Registered(P) == {P.rootInstances[i].root : i \in 1..Len(P.rootInstances)}

====
